---- MODULE Spec2Model ----
(***************************************************************************)
(* A model of the signal-generation and trade-simulation engine of 1pad:  *)
(* position sizing (execution/risk.py), the bar-by-bar trade simulator    *)
(* and backtest loop (backtest/engine.py), the metrics reduction           *)
(* (backtest/metrics.py) and the strategies (strategy/*.py).               *)
(*                                                                         *)
(* Prices and balances are Python floats in the source.  The model keeps   *)
(* them as exact rationals <<numerator, denominator>> in lowest terms, so  *)
(* that x*0.97, risk/denominator and balance += pnl are computed by the    *)
(* same expressions as the code; float rounding is not modelled.           *)
(* Positions in a candle series are the 0-based positions of the source:   *)
(* the bar at position k of a series df is df[k + 1].                      *)
(***************************************************************************)
EXTENDS Integers, Sequences, FiniteSets, TLC

VARIABLES
    tail,      \* run_backtest: the bars of df after the fixed history prefix
    prefix,    \* run_backtest: which history prefix df starts with
    config,    \* run_backtest: the config dict
    i,         \* run_backtest: the scan index
    balance,   \* run_backtest: the running balance
    trades,    \* run_backtest: the list of recorded Trade objects
    view,      \* run_backtest: trades_for_view
    cur,       \* run_backtest: the Trade under construction (<<>> if none)
    pc,        \* run_backtest: position of the control flow
    evaluated, \* run_backtest: the positions generate_signal was called on, in order
    metrics,   \* run_backtest: the result of compute_metrics (<<>> before)
    args,      \* the arguments of a pure function under check
    ret        \* its result (<<>> before the call)

vars == <<tail, prefix, config, i, balance, trades, view, cur, pc,
          evaluated, metrics, args, ret>>

btVars == <<tail, prefix, config, i, balance, trades, view, cur, pc,
            evaluated, metrics>>

-----------------------------------------------------------------------------
(* Exact arithmetic on floats-as-rationals.                                *)

Abs(x) == IF x < 0 THEN -x ELSE x

RECURSIVE GCD(_, _)
GCD(a, b) == IF b = 0 THEN a ELSE GCD(b, a % b)

\* n/d in lowest terms with a positive denominator (d # 0).
RNorm(n, d) ==
    LET g == GCD(Abs(n), Abs(d))
        s == IF d < 0 THEN -1 ELSE 1
    IN  <<(s * n) \div g, (s * d) \div g>>

R(n) == <<n, 1>>
RZero == R(0)
\* Common factors are divided out before the products are formed, so that
\* the intermediate integers stay as small as the results.
RScale(x, y) == y[2] \div GCD(x[2], y[2])
RAdd(x, y) == RNorm(x[1] * RScale(x, y) + y[1] * RScale(y, x), x[2] * RScale(x, y))
RSub(x, y) == RNorm(x[1] * RScale(x, y) - y[1] * RScale(y, x), x[2] * RScale(x, y))
RMul(x, y) ==
    LET g == GCD(Abs(x[1]), y[2])
        h == GCD(Abs(y[1]), x[2])
    IN  RNorm((x[1] \div g) * (y[1] \div h), (x[2] \div h) * (y[2] \div g))
RDiv(x, y) == RMul(x, RNorm(y[2], y[1]))
RAbs(x) == <<Abs(x[1]), x[2]>>
RLt(x, y) == x[1] * RScale(x, y) < y[1] * RScale(y, x)
RLe(x, y) == x[1] * RScale(x, y) <= y[1] * RScale(y, x)
RGt(x, y) == RLt(y, x)
RGe(x, y) == RLe(y, x)

RECURSIVE RSum(_)
RSum(s) == IF s = <<>> THEN RZero ELSE RAdd(RSum(SubSeq(s, 1, Len(s) - 1)), s[Len(s)])

\* The bar at 0-based position k.
At(df, k) == df[k + 1]

Bar(l, c, h) == [low |-> l, close |-> c, high |-> h]

\* The sequences over S of the lengths lo..hi.
SeqsOfLen(S, lo, hi) == UNION {[1..k -> S] : k \in lo..hi}

-----------------------------------------------------------------------------
(* execution/risk.py                                                       *)

SizingError(msg) == [ok |-> FALSE, error |-> msg, sizes |-> <<>>]

\* The sizing with the risk check written < 0 instead of <= 0.
compute_equal_sized_orders_risk_check_strict(entries, stop_loss, account_size, risk_pct) ==
    IF entries = <<>> THEN SizingError("No entry prices provided.")
    ELSE LET risk_amount == RMul(account_size, risk_pct)
             diffs == [k \in 1..Len(entries) |-> RAbs(RSub(entries[k], stop_loss))]
             denom == RSum(diffs)
         IN  IF RLt(risk_amount, RZero) THEN SizingError("Risk amount must be positive.")
             ELSE IF denom = RZero
                  THEN SizingError("Stop loss equals all entry prices, cannot size positions.")
                  ELSE [ok |-> TRUE, error |-> "",
                        sizes |-> [k \in 1..Len(entries) |-> RDiv(risk_amount, denom)]]

\* The sizing with the risk split per entry over each entry's own distance.
compute_equal_sized_orders_per_entry_distance(entries, stop_loss, account_size, risk_pct) ==
    IF entries = <<>> THEN SizingError("No entry prices provided.")
    ELSE LET risk_amount == RMul(account_size, risk_pct)
             diffs == [k \in 1..Len(entries) |-> RAbs(RSub(entries[k], stop_loss))]
             denom == RSum(diffs)
         IN  IF RLe(risk_amount, RZero) THEN SizingError("Risk amount must be positive.")
             ELSE IF denom = RZero
                  THEN SizingError("Stop loss equals all entry prices, cannot size positions.")
                  ELSE [ok |-> TRUE, error |-> "",
                        sizes |-> [k \in 1..Len(entries) |->
                                     IF diffs[k] = RZero THEN RZero
                                     ELSE RDiv(risk_amount, RMul(R(Len(entries)), diffs[k]))]]

\* Returns [ok, error, sizes]: ok = FALSE stands for the raised ValueError.
compute_equal_sized_orders(entries, stop_loss, account_size, risk_pct) ==
    IF entries = <<>> THEN SizingError("No entry prices provided.")
    ELSE LET risk_amount == RMul(account_size, risk_pct)
             diffs == [k \in 1..Len(entries) |-> RAbs(RSub(entries[k], stop_loss))]
             denom == RSum(diffs)
         IN  IF RLe(risk_amount, RZero) THEN SizingError("Risk amount must be positive.")
             ELSE IF denom = RZero
                  THEN SizingError("Stop loss equals all entry prices, cannot size positions.")
                  ELSE LET per_order_size == RDiv(risk_amount, denom)
                       IN  [ok |-> TRUE, error |-> "",
                            sizes |-> [k \in 1..Len(entries) |-> per_order_size]]

\* Returns [ok, error, size]: sizes[0] of the one-entry call, or its ValueError.
compute_position_size(account_size, risk_pct, entry_price, stop_loss) ==
    LET r == compute_equal_sized_orders(<<entry_price>>, stop_loss, account_size, risk_pct)
    IN  IF r.ok THEN [ok |-> TRUE, error |-> "", size |-> r.sizes[1]]
        ELSE [ok |-> FALSE, error |-> r.error, size |-> RZero]

-----------------------------------------------------------------------------
(* backtest/engine.py: _simulate_trade and _pnl_for_trade                  *)

\* The for loop of _simulate_trade from position k on.
RECURSIVE SimFrom(_, _, _, _, _)
SimFrom(df, k, direction, stop_loss, take_profit) ==
    IF k >= Len(df)
    THEN [exit_index |-> Len(df) - 1, exit_price |-> R(At(df, Len(df) - 1).close)]
    ELSE LET high == R(At(df, k).high)
             low == R(At(df, k).low)
         IN  IF direction = "long"
             THEN IF RLe(low, stop_loss) THEN [exit_index |-> k, exit_price |-> stop_loss]
                  ELSE IF RGe(high, take_profit)
                       THEN [exit_index |-> k, exit_price |-> take_profit]
                       ELSE SimFrom(df, k + 1, direction, stop_loss, take_profit)
             ELSE IF RGe(high, stop_loss) THEN [exit_index |-> k, exit_price |-> stop_loss]
                  ELSE IF RLe(low, take_profit)
                       THEN [exit_index |-> k, exit_price |-> take_profit]
                       ELSE SimFrom(df, k + 1, direction, stop_loss, take_profit)

\* The same loop with take-profit checked before stop-loss.
RECURSIVE SimFromTpFirst(_, _, _, _, _)
SimFromTpFirst(df, k, direction, stop_loss, take_profit) ==
    IF k >= Len(df)
    THEN [exit_index |-> Len(df) - 1, exit_price |-> R(At(df, Len(df) - 1).close)]
    ELSE LET high == R(At(df, k).high)
             low == R(At(df, k).low)
         IN  IF direction = "long"
             THEN IF RGe(high, take_profit) THEN [exit_index |-> k, exit_price |-> take_profit]
                  ELSE IF RLe(low, stop_loss)
                       THEN [exit_index |-> k, exit_price |-> stop_loss]
                       ELSE SimFromTpFirst(df, k + 1, direction, stop_loss, take_profit)
             ELSE IF RLe(low, take_profit) THEN [exit_index |-> k, exit_price |-> take_profit]
                  ELSE IF RGe(high, stop_loss)
                       THEN [exit_index |-> k, exit_price |-> stop_loss]
                       ELSE SimFromTpFirst(df, k + 1, direction, stop_loss, take_profit)

_simulate_trade_tp_first(df, start_idx, direction, entry_price, stop_loss, take_profit) ==
    SimFromTpFirst(df, start_idx + 1, direction, stop_loss, take_profit)

\* The forced exit taken at the entry bar's close instead of the final bar's.
_simulate_trade_exit_at_entry_close(df, start_idx, direction, entry_price, stop_loss, take_profit) ==
    LET r == SimFrom(df, start_idx + 1, direction, stop_loss, take_profit)
        hit == \E k \in (start_idx + 1)..(Len(df) - 1) :
                 IF direction = "long"
                 THEN RLe(R(At(df, k).low), stop_loss) \/ RGe(R(At(df, k).high), take_profit)
                 ELSE RGe(R(At(df, k).high), stop_loss) \/ RLe(R(At(df, k).low), take_profit)
    IN  IF hit THEN r
        ELSE [exit_index |-> Len(df) - 1, exit_price |-> R(At(df, start_idx).close)]

\* The scan started on the entry bar itself.
_simulate_trade_from_entry_bar(df, start_idx, direction, entry_price, stop_loss, take_profit) ==
    SimFrom(df, start_idx, direction, stop_loss, take_profit)

_simulate_trade(df, start_idx, direction, entry_price, stop_loss, take_profit) ==
    SimFrom(df, start_idx + 1, direction, stop_loss, take_profit)

\* The pnl with the long and the short formula exchanged.
_pnl_for_trade_sides_exchanged(direction, entry_price, exit_price, size) ==
    IF direction = "long"
    THEN RMul(RSub(entry_price, exit_price), size)
    ELSE RMul(RSub(exit_price, entry_price), size)

_pnl_for_trade(direction, entry_price, exit_price, size) ==
    IF direction = "long"
    THEN RMul(RSub(exit_price, entry_price), size)
    ELSE RMul(RSub(entry_price, exit_price), size)

-----------------------------------------------------------------------------
(* strategy/signals.py: _compute_ms_and_bos                                *)

\* Python's None, for an Optional[int] position and for a missing result.
NoPos == -1
NoStructure == [structure_level |-> NoPos, structure_index |-> NoPos, bos_index |-> NoPos]

Closes(df) == [k \in 1..Len(df) |-> df[k].close]

SeqMax(s) == CHOOSE x \in {s[k] : k \in 1..Len(s)} : \A k \in 1..Len(s) : s[k] <= x

\* closes[a:b] of a numpy array with 0 <= a <= b (b is cut at the length).
Slice(s, a, b) == SubSeq(s, a + 1, IF b > Len(s) THEN Len(s) ELSE b)

\* The swing-high test with a close equal to the window maximum accepted.
IsSwingHighWithTies(closes, p, left, right) ==
    /\ closes[p + 1] >= SeqMax(Slice(closes, p - left, p))
    /\ closes[p + 1] >= SeqMax(Slice(closes, p + 1, p + 1 + right))

\* Lines 154-157: the positions appended to swing_high_positions.
IsSwingHigh(closes, p, left, right) ==
    /\ closes[p + 1] > SeqMax(Slice(closes, p - left, p))
    /\ closes[p + 1] > SeqMax(Slice(closes, p + 1, p + 1 + right))

SwingHighPositions(closes, left, right) ==
    {p \in left..(Len(closes) - right - 1) : IsSwingHigh(closes, p, left, right)}

\* Lines 169-174 with a break after the first assignment.
RECURSIVE BosLoopFirst(_, _, _, _)
BosLoopFirst(closes, structure_level, j, bos_for_this_pivot) ==
    IF j >= Len(closes) THEN bos_for_this_pivot
    ELSE IF closes[j] <= structure_level /\ closes[j + 1] > structure_level
         THEN j
         ELSE BosLoopFirst(closes, structure_level, j + 1, bos_for_this_pivot)

\* Lines 170-174: the inner loop from position j on; every match overwrites
\* bos_for_this_pivot and the loop runs to the end of the series.
RECURSIVE BosLoop(_, _, _, _)
BosLoop(closes, structure_level, j, bos_for_this_pivot) ==
    IF j >= Len(closes) THEN bos_for_this_pivot
    ELSE LET prev_close == closes[j]
             cur_close == closes[j + 1]
         IN  BosLoop(closes, structure_level, j + 1,
                     IF prev_close <= structure_level /\ cur_close > structure_level
                     THEN j ELSE bos_for_this_pivot)

BosForPivotFirst(closes, pivot_pos) ==
    BosLoopFirst(closes, closes[pivot_pos + 1], pivot_pos + 1, NoPos)

\* Lines 167-174: bos_for_this_pivot after the inner loop.
BosForPivot(closes, pivot_pos) ==
    BosLoop(closes, closes[pivot_pos + 1], pivot_pos + 1, NoPos)

\* The selection keeping the first pivot that has a BOS bar.
RECURSIVE FirstBos(_, _, _)
FirstBos(closes, positions, best) ==
    IF positions = {} THEN best
    ELSE LET pivot_pos == CHOOSE p \in positions : \A q \in positions : p <= q
             b == BosForPivot(closes, pivot_pos)
             next == IF b # NoPos /\ best.bar = NoPos
                     THEN [pivot |-> pivot_pos, bar |-> b] ELSE best
         IN  FirstBos(closes, positions \ {pivot_pos}, next)

\* Lines 166-179: the swing positions in increasing order; a later pivot
\* replaces the pair only with a strictly greater BOS bar.
RECURSIVE LastBos(_, _, _)
LastBos(closes, positions, best) ==
    IF positions = {} THEN best
    ELSE LET pivot_pos == CHOOSE p \in positions : \A q \in positions : p <= q
             b == BosForPivot(closes, pivot_pos)
             next == IF b # NoPos /\ (best.bar = NoPos \/ b > best.bar)
                     THEN [pivot |-> pivot_pos, bar |-> b] ELSE best
         IN  LastBos(closes, positions \ {pivot_pos}, next)

_compute_ms_and_bos(df, left, right) ==
    LET n == Len(df)
        closes == Closes(df)
    IN  IF n < left + right + 1 THEN NoStructure
        ELSE LET swing_high_positions == SwingHighPositions(closes, left, right)
                 last == LastBos(closes, swing_high_positions, [pivot |-> NoPos, bar |-> NoPos])
             IN  IF swing_high_positions = {} THEN NoStructure
                 ELSE IF last.bar = NoPos \/ last.pivot = NoPos THEN NoStructure
                 ELSE [structure_level |-> closes[last.pivot + 1],
                       structure_index |-> At(df, last.pivot).ts,
                       bos_index |-> At(df, last.bar).ts]

-----------------------------------------------------------------------------
(* strategy/pivots.py and strategy/fibs.py                                 *)

SeqMin(s) == CHOOSE x \in {s[k] : k \in 1..Len(s)} : \A k \in 1..Len(s) : x <= s[k]

Highs(df) == [k \in 1..Len(df) |-> df[k].high]
Lows(df) == [k \in 1..Len(df) |-> df[k].low]

\* The positions where pivot_high / pivot_low is True (the non-NaN entries
\* of the returned pivot_highs / pivot_lows series).
\* The pivot-high test with the high strictly above the rest of the segment.
PivotHighPositionsStrict(highs, left, right) ==
    {p \in left..(Len(highs) - right - 1) :
        \A q \in (p - left)..(p + right) : q # p => highs[q + 1] < highs[p + 1]}

PivotHighPositions(highs, left, right) ==
    {p \in left..(Len(highs) - right - 1) :
        highs[p + 1] = SeqMax(Slice(highs, p - left, p + right + 1))}

PivotLowPositions(lows, left, right) ==
    {p \in left..(Len(lows) - right - 1) :
        lows[p + 1] = SeqMin(Slice(lows, p - left, p + right + 1))}

detect_pivots(df, left, right) ==
    [pivot_highs |-> PivotHighPositions(Highs(df), left, right),
     pivot_lows |-> PivotLowPositions(Lows(df), left, right)]

\* Lines 46-47: df["high"].where(df["pivot_high"]) with the NaN rows dropped,
\* a price at each pivot position.
PivotPrices(values, positions) == [p \in positions |-> values[p + 1]]

-----------------------------------------------------------------------------
(* strategy/structure.py                                                   *)

\* Line 52: ph_idx[ph_idx < current_index].
PivotsBefore(pivot_idx, current_index) == {p \in pivot_idx : p < current_index}

\* Line 52: arr[-lookback_pivots:], the last lookback_pivots elements; -0 is
\* 0 and keeps the whole array, a negative value m drops the first -m.
RecentPivots(idx, lookback_pivots) ==
    IF lookback_pivots > 0
    THEN {p \in idx : Cardinality({q \in idx : q > p}) < lookback_pivots}
    ELSE {p \in idx : Cardinality({q \in idx : q < p}) >= -lookback_pivots}

\* The oldest of the recent pivots, .iloc[0].
OldestPivot(recent) == CHOOSE p \in recent : \A q \in recent : p <= q

\* Lines 56, 61: .iloc[-1] of the recent pivots.
LastPivot(recent) == CHOOSE p \in recent : \A q \in recent : q <= p

\* Lines 52-58.
IsBosUp(df, pivot_highs, lookback_pivots, k) ==
    LET recent_ph == RecentPivots(PivotsBefore(DOMAIN pivot_highs, k), lookback_pivots)
    IN  /\ recent_ph # {}
        /\ At(df, k).close > pivot_highs[LastPivot(recent_ph)]

\* Lines 53, 60-63.
IsBosDown(df, pivot_lows, lookback_pivots, k) ==
    LET recent_pl == RecentPivots(PivotsBefore(DOMAIN pivot_lows, k), lookback_pivots)
    IN  /\ recent_pl # {}
        /\ At(df, k).close < pivot_lows[LastPivot(recent_pl)]

\* The positions where bos_up / bos_down is True; position 0 is skipped
\* (lines 45-46) and an empty frame returns before the loop (lines 39-42).
detect_break_of_structure(df, pivot_highs, pivot_lows, lookback_pivots) ==
    IF Len(df) = 0 THEN [bos_up |-> {}, bos_down |-> {}]
    ELSE [bos_up |-> {k \in 1..(Len(df) - 1) :
                          IsBosUp(df, pivot_highs, lookback_pivots, k)},
          bos_down |-> {k \in 1..(Len(df) - 1) :
                            IsBosDown(df, pivot_lows, lookback_pivots, k)}]

\* The price of one level measured up from the swing low for a long.
FibPriceFromLow(swing_low, swing_high, direction, lvl) ==
    LET delta == RSub(swing_high, swing_low)
    IN  IF direction = "long" THEN RAdd(swing_low, RMul(delta, lvl))
        ELSE RSub(swing_high, RMul(delta, lvl))

\* The price of one level with the long formula for either direction.
FibPriceIgnoringDirection(swing_low, swing_high, direction, lvl) ==
    RSub(swing_high, RMul(RSub(swing_high, swing_low), lvl))

\* The price of one level; levels are rationals (0.236 is <<59, 250>>).
FibPrice(swing_low, swing_high, direction, lvl) ==
    LET delta == RSub(swing_high, swing_low)
    IN  IF direction = "long" THEN RSub(swing_high, RMul(delta, lvl))
        ELSE RAdd(swing_low, RMul(delta, lvl))

\* The dict of the source, as a function from the levels to their prices.
compute_fib_levels(swing_low, swing_high, direction, levels) ==
    [lvl \in levels |-> FibPrice(swing_low, swing_high, direction, lvl)]

\* Lines 24-25: levels is None.
DefaultLevels ==
    {RNorm(236, 1000), RNorm(382, 1000), RNorm(500, 1000), RNorm(618, 1000), RNorm(786, 1000)}
compute_fib_levels_default(swing_low, swing_high, direction) ==
    compute_fib_levels(swing_low, swing_high, direction, DefaultLevels)

-----------------------------------------------------------------------------
(* strategy/signals.py: the two strategies and the dispatcher              *)

\* Python's None as a signal, and a float NaN.
NoSignal == [signal_type |-> "None"]
NaN == <<0, 0>>

IntSum(s, a, b) ==
    LET RECURSIVE Go(_)
        Go(k) == IF k > b THEN 0 ELSE s[k] + Go(k + 1)
    IN  Go(a)

\* closes.rolling(w).mean().iloc[k]: NaN until w values are in the window.
RollingMean(closes, w, k) ==
    IF k < w - 1 THEN NaN ELSE RNorm(IntSum(closes, k - w + 2, k + 1), w)

Pct(n) == RNorm(n, 100)
Milli(n) == RNorm(n, 1000)

\* The crossing test without the condition on the previous bar.
CrossedUpIgnoringPrev(fast_now, slow_now, fast_prev, slow_prev) ==
    RGt(fast_now, slow_now)

\* Line 103: fast crosses above slow.
CrossedUp(fast_now, slow_now, fast_prev, slow_prev) ==
    RGt(fast_now, slow_now) /\ RLe(fast_prev, slow_prev)

_sma_generate_signal(df, cfg) ==
    IF Len(df) < 51 THEN NoSignal
    ELSE LET closes == Closes(df)
             k == Len(df) - 1
             fast_now == RollingMean(closes, 10, k)
             slow_now == RollingMean(closes, 50, k)
             fast_prev == RollingMean(closes, 10, k - 1)
             slow_prev == RollingMean(closes, 50, k - 1)
         IN  IF \E x \in {fast_now, slow_now, fast_prev, slow_prev} : x = NaN THEN NoSignal
             ELSE LET crossed_up == CrossedUp(fast_now, slow_now, fast_prev, slow_prev)
                      entry == R(closes[k + 1])
                  IN  IF ~crossed_up THEN NoSignal
                      ELSE [strategy |-> "sma",
                            signal_type |-> "market_entry",
                            direction |-> "long",
                            entries |-> <<entry>>,
                            stop_loss |-> RMul(entry, Pct(97)),
                            take_profit |-> RMul(entry, Pct(103)),
                            meta |-> [sma_fast |-> fast_now, sma_slow |-> slow_now]]

RMin(x, y) == IF RLe(x, y) THEN x ELSE y
RMax(x, y) == IF RGe(x, y) THEN x ELSE y

\* The bundle with the zone divided by num_orders instead of num_orders - 1.
OnepadEntriesAboveBottom(zone_top, zone_bottom, center_price, num_orders) ==
    IF num_orders = 1 THEN <<center_price>>
    ELSE LET step == RDiv(RSub(zone_top, zone_bottom), R(num_orders))
         IN  [k \in 1..num_orders |-> RSub(zone_top, RMul(step, R(k - 1)))]

\* Lines 356-377: the limit bundle of a zone with zone_bottom < zone_top.
OnepadEntries(zone_top, zone_bottom, center_price, num_orders) ==
    IF num_orders = 1 THEN <<center_price>>
    ELSE LET step == RDiv(RSub(zone_top, zone_bottom), R(num_orders - 1))
         IN  [k \in 1..num_orders |-> RSub(zone_top, RMul(step, R(k - 1)))]

\* The 1pad signal returned as a market entry at its first limit price.
OnepadSignalAsMarketEntry(zone_top, zone_bottom, center_price, sl, tp, cfg, found) ==
    IF RGe(zone_bottom, zone_top) THEN NoSignal
    ELSE IF cfg.num_limit_orders <= 0 THEN NoSignal
    ELSE [strategy |-> "1pad",
          signal_type |-> "market_entry",
          direction |-> "long",
          entries |-> OnepadEntries(zone_top, zone_bottom, center_price, cfg.num_limit_orders),
          stop_loss |-> sl,
          take_profit |-> tp,
          meta |-> [bos_index |-> found.bos_index,
                    pivot_high_index |-> found.pivot_high_index,
                    pivot_low_index |-> found.pivot_low_index,
                    structure_level |-> found.structure_level,
                    fib_levels |-> found.fib_levels,
                    top |-> zone_top, bottom |-> zone_bottom, center |-> center_price]]

OnepadSignal(zone_top, zone_bottom, center_price, sl, tp, cfg, found) ==
    IF RGe(zone_bottom, zone_top) THEN NoSignal
    ELSE IF cfg.num_limit_orders <= 0 THEN NoSignal
    ELSE [strategy |-> "1pad",
          signal_type |-> "limit_bundle",
          direction |-> "long",
          entries |-> OnepadEntries(zone_top, zone_bottom, center_price, cfg.num_limit_orders),
          stop_loss |-> sl,
          take_profit |-> tp,
          meta |-> [bos_index |-> found.bos_index,
                    pivot_high_index |-> found.pivot_high_index,
                    pivot_low_index |-> found.pivot_low_index,
                    structure_level |-> found.structure_level,
                    fib_levels |-> found.fib_levels,
                    top |-> zone_top, bottom |-> zone_bottom, center |-> center_price]]

\* Lines 323-326: half of the net size, in percent.
HalfNetPct(fib_0236, fib_1) ==
    LET delta_pct == RMul(RAbs(RDiv(RSub(fib_0236, fib_1), fib_1)), R(100))
        net_size_pct == RMul(delta_pct, Milli(375))
    IN  RDiv(net_size_pct, R(2))

\* The zone around the 0.618 level without the clamping to the swing.
OnepadZoneUnclamped(fib_0, fib_0236, fib_0618, fib_1, half_net_pct, cfg, found) ==
    OnepadSignal(RMul(fib_0618, RAdd(R(1), RDiv(half_net_pct, R(100)))),
                 RMul(fib_0618, RSub(R(1), RDiv(half_net_pct, R(100)))),
                 fib_0618, fib_1, fib_0236, cfg, found)

\* Lines 328-338: the zone around the 0.618 level, clamped to the swing.
OnepadZone(fib_0, fib_0236, fib_0618, fib_1, half_net_pct, cfg, found) ==
    OnepadSignal(RMin(RMul(fib_0618, RAdd(R(1), RDiv(half_net_pct, R(100)))), RMax(fib_0, fib_1)),
                 RMax(RMul(fib_0618, RSub(R(1), RDiv(half_net_pct, R(100)))), RMin(fib_0, fib_1)),
                 fib_0618, fib_1, fib_0236, cfg, found)

\* Lines 315-321.
OnepadFibs(fibs, cfg, pair) ==
    IF fibs[R(1)] = RZero THEN NoSignal
    ELSE OnepadZone(fibs[R(0)], fibs[Milli(236)], fibs[Milli(618)], fibs[R(1)],
                    HalfNetPct(fibs[Milli(236)], fibs[R(1)]), cfg,
                    [bos_index |-> pair.bos_index,
                     pivot_high_index |-> pair.pivot_high_index,
                     pivot_low_index |-> pair.pivot_low_index,
                     structure_level |-> pair.structure_level,
                     fib_levels |-> fibs])

\* Lines 301-313.
OnepadSwing(swing_low, swing_high, cfg, pair) ==
    IF RLe(swing_high, swing_low) THEN NoSignal
    ELSE OnepadFibs(compute_fib_levels(swing_low, swing_high, "long",
                                       {R(0), Milli(236), Milli(618), R(1)}), cfg, pair)

LastOf(S) == CHOOSE q \in S : \A x \in S : x <= q

\* The candidates with the earliest pivot high after the BOS taken.
OnepadCandidatesFirstHigh(df, cfg, ph_candidates, pl_candidates, structure_level, bos_idx) ==
    IF ph_candidates = {} THEN NoSignal
    ELSE IF pl_candidates = {} THEN NoSignal
    ELSE OnepadSwing(R(At(df, LastOf(pl_candidates)).low),
                     R(At(df, (CHOOSE q \in ph_candidates :
                                   \A x \in ph_candidates : q <= x)).high), cfg,
                     [bos_index |-> bos_idx,
                      pivot_high_index |->
                          At(df, (CHOOSE q \in ph_candidates :
                                      \A x \in ph_candidates : q <= x)).ts,
                      pivot_low_index |-> At(df, LastOf(pl_candidates)).ts,
                      structure_level |-> structure_level])

\* Lines 284-298: the candidates' positions; index[-1] is the latest one.
OnepadCandidates(df, cfg, ph_candidates, pl_candidates, structure_level, bos_idx) ==
    IF ph_candidates = {} THEN NoSignal
    ELSE IF pl_candidates = {} THEN NoSignal
    ELSE OnepadSwing(R(At(df, LastOf(pl_candidates)).low),
                     R(At(df, LastOf(ph_candidates)).high), cfg,
                     [bos_index |-> bos_idx,
                      pivot_high_index |-> At(df, LastOf(ph_candidates)).ts,
                      pivot_low_index |-> At(df, LastOf(pl_candidates)).ts,
                      structure_level |-> structure_level])

\* Lines 271-287.
OnepadPivots(df, cfg, structure_level, bos_idx, current_idx, pivots) ==
    IF structure_level = NoPos \/ bos_idx = NoPos THEN NoSignal
    ELSE IF bos_idx >= current_idx THEN NoSignal
    ELSE OnepadCandidates(df, cfg,
            {q \in pivots.pivot_highs : At(df, q).ts > bos_idx /\ At(df, q).ts < current_idx},
            {q \in pivots.pivot_lows : At(df, q).ts < bos_idx},
            structure_level, bos_idx)

OnepadStructure(df, cfg, ms) ==
    OnepadPivots(df, cfg, ms.structure_level, ms.bos_index, At(df, Len(df) - 1).ts,
                 detect_pivots(df, 1, 1))

\* The strategy asking for the 50 bars of the structure lookback only.
_onepad_generate_signal_lookback_only(df, cfg) ==
    IF Len(df) = 0 THEN NoSignal
    ELSE IF Len(df) < 50 THEN NoSignal
    ELSE OnepadStructure(df, cfg, _compute_ms_and_bos(df, 4, 4))

_onepad_generate_signal(df, cfg) ==
    IF Len(df) = 0 THEN NoSignal
    ELSE IF Len(df) < 50 + 5 THEN NoSignal
    ELSE OnepadStructure(df, cfg, _compute_ms_and_bos(df, 4, 4))

\* str.lower() on the strategy names the model draws.
Lower(name) ==
    CASE name \in {"SMA", "Sma"} -> "sma"
      [] name \in {"1PAD", "1Pad"} -> "1pad"
      [] name = "MACD" -> "macd"
      [] OTHER -> name

\* config.get("strategy", "1pad").lower(); a config without the key has
\* strategy = "" in the model.
StrategyName(cfg) == IF cfg.strategy = "" THEN "1pad" ELSE Lower(cfg.strategy)

\* The dispatcher with every unrecognised name handled as 1pad.
generate_signal_onepad_otherwise(df, cfg) ==
    LET strategy_name == StrategyName(cfg)
    IN  IF strategy_name = "sma" THEN _sma_generate_signal(df, cfg)
        ELSE _onepad_generate_signal(df, cfg)

generate_signal(df, cfg) ==
    LET strategy_name == StrategyName(cfg)
    IN  IF strategy_name = "sma" THEN _sma_generate_signal(df, cfg)
        ELSE IF strategy_name = "1pad" THEN _onepad_generate_signal(df, cfg)
        ELSE NoSignal

-----------------------------------------------------------------------------
(* backtest/metrics.py and execution/orders.py                             *)

\* Python's None for an Optional[float] and for an Optional[datetime].
NoPrice == <<>>
NoTime == -1

\* Trade(id=..., symbol=..., direction=...) with the dataclass defaults.
Trade(id, direction) ==
    [id |-> id, direction |-> direction, status |-> "pending",
     stop_loss |-> NoPrice, take_profit |-> NoPrice,
     opened_at |-> NoTime, closed_at |-> NoTime,
     entry_price_avg |-> NoPrice, exit_price |-> NoPrice,
     size_total |-> RZero, pnl_usd |-> RZero]

SeqMap(Op(_), s) == [k \in 1..Len(s) |-> Op(s[k])]
\* The status test with live trades counted as well.
IsClosedOrOpen(t) == t.status \in {"closed", "open"}

IsClosed(t) == t.status = "closed"
PnlOf(t) == t.pnl_usd

\* The metrics with the return computed for every nonzero starting balance.
compute_metrics_nonzero_guard(trs, starting_balance) ==
    LET closed_trades == SelectSeq(trs, IsClosed)
        ending_balance == RAdd(starting_balance, RSum(SeqMap(PnlOf, closed_trades)))
        net_profit == RSub(ending_balance, starting_balance)
        num_trades == Len(closed_trades)
        wins == {k \in 1..num_trades : RGt(closed_trades[k].pnl_usd, RZero)}
        timed == {k \in 1..num_trades : closed_trades[k].opened_at # NoTime
                                        /\ closed_trades[k].closed_at # NoTime}
        durations == {closed_trades[k].closed_at - closed_trades[k].opened_at : k \in timed}
        total == LET RECURSIVE Go(_)
                     Go(S) == IF S = {} THEN 0
                              ELSE LET k == CHOOSE k \in S : TRUE
                                   IN  (closed_trades[k].closed_at - closed_trades[k].opened_at)
                                       + Go(S \ {k})
                 IN  Go(timed)
    IN  [starting_balance |-> starting_balance,
         ending_balance |-> ending_balance,
         net_profit |-> net_profit,
         net_return_pct |-> IF starting_balance # RZero
                            THEN RMul(RDiv(net_profit, starting_balance), R(100)) ELSE RZero,
         num_trades |-> num_trades,
         win_rate_pct |-> IF num_trades > 0
                          THEN RMul(RNorm(Cardinality(wins), num_trades), R(100)) ELSE RZero,
         avg_trade_duration_sec |-> IF timed # {} THEN RNorm(total, Cardinality(timed)) ELSE RZero,
         max_trade_duration_sec |-> IF timed # {}
                                    THEN CHOOSE d \in durations : \A e \in durations : e <= d
                                    ELSE 0,
         min_trade_duration_sec |-> IF timed # {}
                                    THEN CHOOSE d \in durations : \A e \in durations : d <= e
                                    ELSE 0]

compute_metrics(trs, starting_balance) ==
    LET closed_trades == SelectSeq(trs, IsClosed)
        ending_balance == RAdd(starting_balance, RSum(SeqMap(PnlOf, closed_trades)))
        net_profit == RSub(ending_balance, starting_balance)
        num_trades == Len(closed_trades)
        wins == {k \in 1..num_trades : RGt(closed_trades[k].pnl_usd, RZero)}
        timed == {k \in 1..num_trades : closed_trades[k].opened_at # NoTime
                                        /\ closed_trades[k].closed_at # NoTime}
        durations == {closed_trades[k].closed_at - closed_trades[k].opened_at : k \in timed}
        total == LET RECURSIVE Go(_)
                     Go(S) == IF S = {} THEN 0
                              ELSE LET k == CHOOSE k \in S : TRUE
                                   IN  (closed_trades[k].closed_at - closed_trades[k].opened_at)
                                       + Go(S \ {k})
                 IN  Go(timed)
    IN  [starting_balance |-> starting_balance,
         ending_balance |-> ending_balance,
         net_profit |-> net_profit,
         net_return_pct |-> IF RGt(starting_balance, RZero)
                            THEN RMul(RDiv(net_profit, starting_balance), R(100)) ELSE RZero,
         num_trades |-> num_trades,
         win_rate_pct |-> IF num_trades > 0
                          THEN RMul(RNorm(Cardinality(wins), num_trades), R(100)) ELSE RZero,
         avg_trade_duration_sec |-> IF timed # {} THEN RNorm(total, Cardinality(timed)) ELSE RZero,
         max_trade_duration_sec |-> IF timed # {}
                                    THEN CHOOSE d \in durations : \A e \in durations : e <= d
                                    ELSE 0,
         min_trade_duration_sec |-> IF timed # {}
                                    THEN CHOOSE d \in durations : \A e \in durations : d <= e
                                    ELSE 0]

-----------------------------------------------------------------------------
(* backtest/engine.py: run_backtest                                        *)

\* The loop starts after 50 bars (line 208).
WarmUp == 50

\* The longest series tail after the fixed history.
MaxTail == 6

\* The timestamp of the bar at position k: strictly increasing, never k.
Ts(k) == 1000 + 60 * k

\* A bar with the timestamp of position k.
Stamped(bar, k) ==
    [low |-> bar.low, close |-> bar.close, high |-> bar.high, ts |-> Ts(k)]

\* The fixed histories: WarmUp flat bars at 100; WarmUp bars at 2 with a
\* close of 3 at position 45 (a 4-left/4-right swing high of the closes).
FlatHistory == [k \in 1..WarmUp |-> Stamped(Bar(100, 100, 100), k - 1)]
SwingHistory ==
    [k \in 1..WarmUp |-> Stamped(IF k = 46 THEN Bar(2, 3, 3) ELSE Bar(2, 2, 2), k - 1)]

History(name) ==
    CASE name = "empty" -> <<>>
      [] name = "flat" -> FlatHistory
      [] name = "swing" -> SwingHistory

\* The candle series the exchange returned: a fixed history followed by up
\* to MaxTail bars of a few shapes.
Series(name, tl) ==
    History(name) \o [k \in 1..Len(tl) |-> Stamped(tl[k], Len(History(name)) + k - 1)]

DF == Series(prefix, tail)

\* Bars around 100: flat, a rise that crosses the averages, and bars above
\* and below the 3% levels of an entry at 101.  Bars of small prices that
\* break the swing at 3.
Flat == Bar(100, 100, 100)
Rise == Bar(100, 101, 102)
Rally == Bar(101, 105, 106)
Drop == Bar(97, 98, 100)
PadShapes == {Bar(2, 2, 2), Bar(3, 4, 4), Bar(3, 4, 5)}

Config(strategy, risk_pct) ==
    [strategy |-> strategy, account_size |-> R(1000), risk_pct |-> risk_pct,
     num_limit_orders |-> 4]

\* The runs: a config, a history and the shapes of the tail.  Strategy "" is
\* a config without the key (the config of get_user_config).
Runs ==
    {[config |-> Config("sma", Pct(2)), prefix |-> "flat", shapes |-> {Flat, Rise, Rally, Drop}],
     [config |-> Config("sma", R(1)), prefix |-> "flat", shapes |-> {Rise, Rally, Drop}],
     [config |-> Config("sma", RZero), prefix |-> "flat", shapes |-> {Flat, Rise}],
     [config |-> Config("1pad", Pct(2)), prefix |-> "swing", shapes |-> PadShapes],
     [config |-> Config("", Pct(2)), prefix |-> "swing", shapes |-> PadShapes],
     [config |-> Config("macd", Pct(2)), prefix |-> "flat", shapes |-> {Rise}],
     [config |-> Config("sma", Pct(2)), prefix |-> "empty", shapes |-> {Flat}]}

Init ==
    /\ \E run \in Runs :
         /\ config = run.config
         /\ prefix = run.prefix
         /\ tail \in SeqsOfLen(run.shapes, 0, MaxTail)
    /\ i = 0 /\ balance = RZero /\ trades = <<>> /\ view = <<>> /\ cur = <<>>
    /\ pc = "start" /\ evaluated = <<>> /\ metrics = <<>>
    /\ args = [fn |-> "run_backtest"] /\ ret = <<>>

\* Lines 197-199: no data, the run returns before the loop and the metrics.
AbortNoData ==
    /\ pc = "start"
    /\ Len(DF) = 0
    /\ pc' = "aborted"
    /\ UNCHANGED <<tail, prefix, config, i, balance, trades, view, cur, evaluated, metrics,
                   args, ret>>

\* Lines 201-208.
StartLoop ==
    /\ pc = "start"
    /\ Len(DF) # 0
    /\ balance' = config.account_size
    /\ i' = WarmUp
    /\ pc' = "loop"
    /\ UNCHANGED <<tail, prefix, config, trades, view, cur, evaluated, metrics, args, ret>>

\* The loop condition with the final bar scanned as well.
InLoopThroughFinalBar == pc = "loop" /\ i < Len(DF)

InLoop == pc = "loop" /\ i < Len(DF) - 1

\* Line 211-213: the signal of the prefix ending at the scan index.
SignalAt(k) == generate_signal(SubSeq(DF, 1, k + 1), config)

\* The position sized from the configured account size instead of the running
\* balance.
SizeForAccountSize(signal) == compute_position_size(config.account_size, config.risk_pct,
                                                    signal.entries[1], signal.stop_loss)

SizeFor(signal) == compute_position_size(balance, config.risk_pct,
                                         signal.entries[1], signal.stop_loss)

Logged(outcome) == Append(evaluated, [pos |-> i, outcome |-> outcome])

\* The skip of a bar without a signal that leaves the scan index in place.
SkipNoSignalStays(signal) ==
    /\ signal.signal_type = "None"
    /\ i' = i
    /\ evaluated' = Logged("none")
    /\ UNCHANGED <<tail, prefix, config, balance, trades, view, cur, pc, metrics, args, ret>>

\* Lines 214-216.
SkipNoSignal(signal) ==
    /\ signal.signal_type = "None"
    /\ i' = i + 1
    /\ evaluated' = Logged("none")
    /\ UNCHANGED <<tail, prefix, config, balance, trades, view, cur, pc, metrics, args, ret>>

Unhandled(signal) == signal.signal_type \notin {"None", "market_entry"}

\* The skip of an unhandled signal advancing to the bar after the next.
SkipUnhandledSignalByTwo(signal) ==
    /\ Unhandled(signal)
    /\ i' = i + 2
    /\ evaluated' = Logged("unhandled")
    /\ UNCHANGED <<tail, prefix, config, balance, trades, view, cur, pc, metrics, args, ret>>

\* Lines 218-225.
SkipUnhandledSignal(signal) ==
    /\ Unhandled(signal)
    /\ i' = i + 1
    /\ evaluated' = Logged("unhandled")
    /\ UNCHANGED <<tail, prefix, config, balance, trades, view, cur, pc, metrics, args, ret>>

\* Lines 227-240: whether the signal is a market entry whose sizing raises.
SizingFails(signal) == signal.signal_type = "market_entry" /\ ~SizeFor(signal).ok
SizingWorks(signal) == signal.signal_type = "market_entry" /\ SizeFor(signal).ok

\* The sizing error ending the loop instead of skipping the bar.
SkipSizingErrorAborts(signal) ==
    /\ SizingFails(signal)
    /\ i' = Len(DF)
    /\ evaluated' = Logged("sizing_error")
    /\ UNCHANGED <<tail, prefix, config, balance, trades, view, cur, pc, metrics, args, ret>>

\* Lines 227-243 when compute_position_size raises.
SkipSizingError(signal) ==
    /\ SizingFails(signal)
    /\ i' = i + 1
    /\ evaluated' = Logged("sizing_error")
    /\ UNCHANGED <<tail, prefix, config, balance, trades, view, cur, pc, metrics, args, ret>>

\* Lines 255-269: the locals of the iteration and the new Trade object.
Built(direction, entry_price, stop_loss, take_profit, size, entry_idx, exit) ==
    [trade |-> Trade(Len(trades) + 1, direction),
     direction |-> direction, entry_price |-> entry_price,
     stop_loss |-> stop_loss, take_profit |-> take_profit,
     size |-> size, entry_idx |-> entry_idx,
     exit_idx |-> exit.exit_index, exit_price |-> exit.exit_price,
     pnl |-> _pnl_for_trade(direction, entry_price, exit.exit_price, size),
     entry_time |-> At(DF, entry_idx).ts,
     exit_time |-> At(DF, exit.exit_index).ts]

\* Lines 227-253.
Simulated(signal, size, entry_idx) ==
    Built(signal.direction, signal.entries[1], signal.stop_loss, signal.take_profit,
          size, entry_idx,
          _simulate_trade(DF, entry_idx, signal.direction, signal.entries[1],
                          signal.stop_loss, signal.take_profit))

\* The Trade under construction for a signal that sizes.
Creates(signal) ==
    /\ SizingWorks(signal)
    /\ cur' = <<Simulated(signal, SizeFor(signal).size, i)>>

\* Lines 227-269: the signal is sized, the exit is simulated and the Trade
\* object is created.
CreateTrade(signal) ==
    /\ Creates(signal)
    /\ pc' = "created"
    /\ evaluated' = Logged("trade")
    /\ UNCHANGED <<tail, prefix, config, i, balance, trades, view, metrics, args, ret>>

\* Lines 270-275.
FillTrade ==
    /\ pc = "created"
    /\ cur' = <<[cur[1] EXCEPT !.trade = [@ EXCEPT !.opened_at = cur[1].entry_time,
                                                    !.closed_at = cur[1].exit_time,
                                                    !.entry_price_avg = cur[1].entry_price,
                                                    !.exit_price = cur[1].exit_price,
                                                    !.size_total = cur[1].size,
                                                    !.pnl_usd = cur[1].pnl]]>>
    /\ pc' = "filled"
    /\ UNCHANGED <<tail, prefix, config, i, balance, trades, view, evaluated, metrics, args, ret>>

\* Lines 276-278 with the status set to open.
CloseTradeSetsOpen ==
    /\ pc = "filled"
    /\ cur' = <<[cur[1] EXCEPT !.trade = [@ EXCEPT !.status = "open",
                                                    !.stop_loss = cur[1].stop_loss,
                                                    !.take_profit = cur[1].take_profit]]>>
    /\ pc' = "closed"
    /\ UNCHANGED <<tail, prefix, config, i, balance, trades, view, evaluated, metrics, args, ret>>

\* Lines 276-278.
CloseTrade ==
    /\ pc = "filled"
    /\ cur' = <<[cur[1] EXCEPT !.trade = [@ EXCEPT !.status = "closed",
                                                    !.stop_loss = cur[1].stop_loss,
                                                    !.take_profit = cur[1].take_profit]]>>
    /\ pc' = "closed"
    /\ UNCHANGED <<tail, prefix, config, i, balance, trades, view, evaluated, metrics, args, ret>>

\* The record step resuming the scan at the exit bar itself.
RecordTradeResumesAtExit ==
    /\ pc = "closed"
    /\ trades' = Append(trades, cur[1].trade)
    /\ balance' = RAdd(balance, cur[1].pnl)
    /\ view' = Append(view, [id |-> cur[1].trade.id, direction |-> cur[1].direction,
                             entry_index |-> cur[1].entry_idx, exit_index |-> cur[1].exit_idx,
                             entry_price |-> cur[1].entry_price,
                             exit_price |-> cur[1].exit_price,
                             stop_loss |-> cur[1].stop_loss,
                             take_profit |-> cur[1].take_profit])
    /\ i' = cur[1].exit_idx
    /\ cur' = <<>>
    /\ pc' = "loop"
    /\ UNCHANGED <<tail, prefix, config, evaluated, metrics, args, ret>>

\* Lines 280-303: the trade is recorded, the balance takes the pnl and the
\* scan resumes at the bar after the exit.
RecordTrade ==
    /\ pc = "closed"
    /\ trades' = Append(trades, cur[1].trade)
    /\ balance' = RAdd(balance, cur[1].pnl)
    /\ view' = Append(view, [id |-> cur[1].trade.id, direction |-> cur[1].direction,
                             entry_index |-> cur[1].entry_idx, exit_index |-> cur[1].exit_idx,
                             entry_price |-> cur[1].entry_price,
                             exit_price |-> cur[1].exit_price,
                             stop_loss |-> cur[1].stop_loss,
                             take_profit |-> cur[1].take_profit])
    /\ i' = cur[1].exit_idx + 1
    /\ cur' = <<>>
    /\ pc' = "loop"
    /\ UNCHANGED <<tail, prefix, config, evaluated, metrics, args, ret>>

\* Lines 210 and 307: the loop ends and the metrics are computed.
Finish ==
    /\ pc = "loop"
    /\ ~(i < Len(DF) - 1)
    /\ metrics' = <<compute_metrics(trades, config.account_size)>>
    /\ pc' = "done"
    /\ UNCHANGED <<tail, prefix, config, i, balance, trades, view, cur, evaluated, args, ret>>

\* Lines 210-269: one iteration of the loop up to the branch the signal of
\* the bar selects.
ScanBar ==
    /\ InLoop
    /\ \E signal \in {SignalAt(i)} :
         \/ SkipNoSignal(signal)
         \/ SkipUnhandledSignal(signal)
         \/ SkipSizingError(signal)
         \/ CreateTrade(signal)

Next ==
    \/ AbortNoData
    \/ StartLoop
    \/ ScanBar
    \/ FillTrade
    \/ CloseTrade
    \/ RecordTrade
    \/ Finish

Spec == Init /\ [][Next]_vars

-----------------------------------------------------------------------------
(* Bounds of the checks of the pure functions.                             *)

MaxSimLen == 4
MaxEntries == 3
MaxMsLen == 7
MaxWindow == 2

\* The run_backtest variables while a pure function is under check.
BacktestIdle ==
    /\ tail = <<>> /\ prefix = "none" /\ config = [strategy |-> "none"]
    /\ i = 0 /\ balance = RZero /\ trades = <<>> /\ view = <<>> /\ cur = <<>>
    /\ pc = "idle" /\ evaluated = <<>> /\ metrics = <<>>

-----------------------------------------------------------------------------
(* _simulate_trade on every short series of a few bar shapes.              *)

SimShapes == {Bar(96, 102, 108), Bar(95, 97, 100), Bar(100, 108, 110), Bar(90, 100, 120)}
SimLevels == {[stop_loss |-> R(95), take_profit |-> R(110)],
              [stop_loss |-> R(110), take_profit |-> R(95)]}

InitSim ==
    /\ BacktestIdle
    /\ ret = <<>>
    /\ \E df \in SeqsOfLen(SimShapes, 1, MaxSimLen), d \in {"long", "short"}, lv \in SimLevels :
         \E s \in 0..(Len(df) - 1) :
            args = [fn |-> "_simulate_trade", df |-> df, start_idx |-> s, direction |-> d,
                    entry_price |-> R(100), stop_loss |-> lv.stop_loss,
                    take_profit |-> lv.take_profit]

CallSimulateTrade ==
    /\ args.fn = "_simulate_trade"
    /\ ret = <<>>
    /\ ret' = <<_simulate_trade(args.df, args.start_idx, args.direction, args.entry_price,
                                args.stop_loss, args.take_profit)>>
    /\ UNCHANGED <<btVars, args>>

NextSim == CallSimulateTrade

SpecSim == InitSim /\ [][NextSim]_vars

\* The trigger conditions of the claims, stated on one bar.
SlCond(bar, direction, stop_loss) ==
    IF direction = "long" THEN RLe(R(bar.low), stop_loss) ELSE RGe(R(bar.high), stop_loss)
TpCond(bar, direction, take_profit) ==
    IF direction = "long" THEN RGe(R(bar.high), take_profit) ELSE RLe(R(bar.low), take_profit)
Touches(k) ==
    \/ SlCond(At(args.df, k), args.direction, args.stop_loss)
    \/ TpCond(At(args.df, k), args.direction, args.take_profit)
Conflict(k) ==
    /\ SlCond(At(args.df, k), args.direction, args.stop_loss)
    /\ TpCond(At(args.df, k), args.direction, args.take_profit)
AfterEntry == (args.start_idx + 1)..(Len(args.df) - 1)
FirstTouch(k) == k \in AfterEntry /\ Touches(k) /\ \A m \in AfterEntry : m < k => ~Touches(m)
SimDone == args.fn = "_simulate_trade" /\ ret # <<>>

\* C1: when the bar on which the simulated trade first touches a level
\* satisfies both the stop-loss and the take-profit condition (long: low <=
\* stop_loss and high >= take_profit; short: high >= stop_loss and low <=
\* take_profit), _simulate_trade returns (that bar, stop_loss).
C1_SameBarConflictExitsAtStopLoss ==
    SimDone => \A k \in AfterEntry :
        (FirstTouch(k) /\ Conflict(k)) =>
            ret[1] = [exit_index |-> k, exit_price |-> args.stop_loss]

C1_Witness ==
    /\ SimDone
    /\ args.direction = "short"
    /\ \E k \in AfterEntry : k > args.start_idx + 1 /\ FirstTouch(k) /\ Conflict(k)

\* C2: if no bar after the entry bar touches the stop-loss or the
\* take-profit, _simulate_trade returns (len - 1, close of the final bar),
\* for long and for short trades.
C2_ForcedExitAtFinalClose ==
    SimDone => ((\A k \in AfterEntry : ~Touches(k)) =>
        ret[1] = [exit_index |-> Len(args.df) - 1,
                  exit_price |-> R(At(args.df, Len(args.df) - 1).close)])

C2_Witness ==
    /\ SimDone
    /\ Len(args.df) >= args.start_idx + 3
    /\ \A k \in AfterEntry : ~Touches(k)
    /\ At(args.df, args.start_idx).close # At(args.df, Len(args.df) - 1).close

-----------------------------------------------------------------------------
(* The position sizer on small entry lists.                                *)

RiskPrices == {R(95), R(100), R(105)}
RiskStops == {R(95), R(100)}
RiskAccounts == {R(0), R(1000), R(-1000)}
RiskPcts == {RZero, <<1, 100>>, <<-1, 100>>}

InitRisk ==
    /\ BacktestIdle
    /\ ret = <<>>
    /\ \E es \in SeqsOfLen(RiskPrices, 0, MaxEntries), sl \in RiskStops,
          a \in RiskAccounts, p \in RiskPcts, e \in RiskPrices :
         args = [fn |-> "risk", entries |-> es, stop_loss |-> sl, account_size |-> a,
                 risk_pct |-> p, entry_price |-> e]

CallEqualSizedOrders ==
    /\ args.fn = "risk"
    /\ ret = <<>>
    /\ ret' = <<[fn |-> "compute_equal_sized_orders",
                 r |-> compute_equal_sized_orders(args.entries, args.stop_loss,
                                                  args.account_size, args.risk_pct)]>>
    /\ UNCHANGED <<btVars, args>>

CallPositionSize ==
    /\ args.fn = "risk"
    /\ ret = <<>>
    /\ ret' = <<[fn |-> "compute_position_size",
                 r |-> compute_position_size(args.account_size, args.risk_pct,
                                             args.entry_price, args.stop_loss)]>>
    /\ UNCHANGED <<btVars, args>>

NextRisk == CallEqualSizedOrders \/ CallPositionSize

SpecRisk == InitRisk /\ [][NextRisk]_vars

RiskAmount == RMul(args.account_size, args.risk_pct)
Distance(e) == RAbs(RSub(e, args.stop_loss))
SumDistances == RSum([k \in 1..Len(args.entries) |-> Distance(args.entries[k])])
EqualSizedDone == args.fn = "risk" /\ ret # <<>> /\ ret[1].fn = "compute_equal_sized_orders"
PositionSizeDone == args.fn = "risk" /\ ret # <<>> /\ ret[1].fn = "compute_position_size"
ValidSizing == args.entries # <<>> /\ RGt(RiskAmount, RZero) /\ SumDistances # RZero

\* C4: for a non-empty entry list with account_size*risk_pct > 0 and at
\* least one entry different from stop_loss, compute_equal_sized_orders
\* returns one size per entry, each (account_size*risk_pct) / sum|entry_i -
\* stop_loss|, and sum(size_i * |entry_i - stop_loss|) = account_size*risk_pct;
\* compute_position_size returns the same formula for its one entry.
C4_EqualSizesSpendTheRiskBudget ==
    /\ (EqualSizedDone /\ ValidSizing) =>
          LET r == ret[1].r IN
          /\ r.ok
          /\ Len(r.sizes) = Len(args.entries)
          /\ \A k \in 1..Len(r.sizes) : r.sizes[k] = RDiv(RiskAmount, SumDistances)
          /\ RSum([k \in 1..Len(r.sizes) |-> RMul(r.sizes[k], Distance(args.entries[k]))])
                = RiskAmount
    /\ (PositionSizeDone /\ RGt(RiskAmount, RZero) /\ args.entry_price # args.stop_loss) =>
          LET r == ret[1].r IN
          /\ r.ok
          /\ r.size = RDiv(RiskAmount, Distance(args.entry_price))

C4_Witness ==
    /\ EqualSizedDone /\ ValidSizing
    /\ Len(args.entries) = 3
    /\ \E k \in 1..3 : args.entries[k] = args.stop_loss
    /\ \E k, m \in 1..3 : Distance(args.entries[k]) # Distance(args.entries[m])
    /\ RLt(args.account_size, RZero)

\* C5: compute_equal_sized_orders raises its ValueError, returning no
\* sizes, exactly when entries is empty, account_size*risk_pct <= 0, or
\* stop_loss equals every entry; otherwise it returns sizes.
C5_SizingErrorExactly ==
    EqualSizedDone =>
        LET r == ret[1].r IN
        /\ ~r.ok <=> (\/ args.entries = <<>>
                      \/ RLe(RiskAmount, RZero)
                      \/ \A k \in 1..Len(args.entries) : args.entries[k] = args.stop_loss)
        /\ ~r.ok => r.sizes = <<>>
        /\ r.ok => r.sizes # <<>>

C5_Witness ==
    /\ EqualSizedDone
    /\ ~ret[1].r.ok
    /\ Len(args.entries) = 2
    /\ RGt(RiskAmount, RZero)
    /\ \A k \in 1..2 : args.entries[k] = args.stop_loss

-----------------------------------------------------------------------------
(* _compute_ms_and_bos on short close series.                              *)

MsCloses == {1, 2, 3, 4}

InitMs ==
    /\ BacktestIdle
    /\ ret = <<>>
    /\ \E cs \in SeqsOfLen(MsCloses, 0, MaxMsLen), l \in 1..MaxWindow, r \in 1..MaxWindow :
         args = [fn |-> "_compute_ms_and_bos",
                 df |-> [k \in 1..Len(cs) |-> [close |-> cs[k], ts |-> Ts(k - 1)]],
                 left |-> l, right |-> r]

\* The call, keeping the per-pivot BOS positions of the inner loop beside
\* the returned triple.
CallComputeMsAndBos ==
    /\ args.fn = "_compute_ms_and_bos"
    /\ ret = <<>>
    /\ LET closes == Closes(args.df)
           swings == IF Len(closes) < args.left + args.right + 1 THEN {}
                     ELSE SwingHighPositions(closes, args.left, args.right)
       IN  ret' = <<[result |-> _compute_ms_and_bos(args.df, args.left, args.right),
                     swing_high_positions |-> swings,
                     bos_for_pivot |-> [p \in swings |-> BosForPivot(closes, p)]]>>
    /\ UNCHANGED <<btVars, args>>

NextMs == CallComputeMsAndBos

SpecMs == InitMs /\ [][NextMs]_vars

MsDone == args.fn = "_compute_ms_and_bos" /\ ret # <<>>
MsClose(k) == At(args.df, k).close
MsLen == Len(args.df)
Exceeds(p) == {j \in (p + 1)..(MsLen - 1) : MsClose(j) > MsClose(p)}
BreaksAbove(p) ==
    {j \in (p + 1)..(MsLen - 1) : MsClose(j - 1) <= MsClose(p) /\ MsClose(j) > MsClose(p)}
SetMin(S) == CHOOSE x \in S : \A y \in S : x <= y
SetMax(S) == CHOOSE x \in S : \A y \in S : y <= x

MsBos(p) == ret[1].bos_for_pivot[p]
MsWithBos == {p \in ret[1].swing_high_positions : MsBos(p) # NoPos}
MsLatestBos == SetMax({MsBos(p) : p \in MsWithBos})

\* C11: the active structure is the swing/BOS pair whose BOS bar is the
\* greatest among the swing-high candidates that have a BOS bar (the earliest
\* such swing when several share that bar); the result is that swing's
\* close with the timestamps of the swing and of the BOS bar.  With no
\* candidate that has a BOS bar, or fewer than left+right+1 bars, the result
\* is (None, None, None).
C11_LatestBosIsActive ==
    MsDone =>
        IF MsLen < args.left + args.right + 1 \/ MsWithBos = {}
        THEN ret[1].result = NoStructure
        ELSE LET swing == SetMin({p \in MsWithBos : MsBos(p) = MsLatestBos})
             IN  ret[1].result = [structure_level |-> MsClose(swing),
                                  structure_index |-> At(args.df, swing).ts,
                                  bos_index |-> At(args.df, MsLatestBos).ts]

\* Two swings have different BOS bars and the earlier swing has the later
\* one: it is the active structure.
C11_Witness ==
    /\ MsDone
    /\ \E p \in MsWithBos, q \in MsWithBos :
         /\ p < q
         /\ MsBos(q) < MsBos(p)
         /\ ret[1].result.structure_index = At(args.df, p).ts
         /\ ret[1].result.bos_index = At(args.df, MsBos(p)).ts

\* The bars of the left window before p and of the right window after p.
LeftWindow(p) == (p - args.left)..(p - 1)
RightWindow(p) == (p + 1)..(p + args.right)

StrictlyAbove(p, window) == \A k \in window : MsClose(k) < MsClose(p)

\* C12: position p is a swing-high candidate iff left <= p < n-right and
\* close[p] is strictly greater than every close of the left bars before p
\* and of the right bars after p; an equal close in a window disqualifies.
C12_SwingHighIsStrict ==
    (MsDone /\ MsLen >= args.left + args.right + 1) =>
        \A p \in 0..(MsLen - 1) :
            p \in ret[1].swing_high_positions
            <=> /\ args.left <= p
                /\ p < MsLen - args.right
                /\ StrictlyAbove(p, LeftWindow(p))
                /\ StrictlyAbove(p, RightWindow(p))

\* One position is a swing high and another, whose close equals the
\* greatest close of one of its windows and exceeds the other, is not.
C12_Witness ==
    /\ MsDone
    /\ ret[1].swing_high_positions # {}
    /\ \E p \in args.left..(MsLen - args.right - 1) :
         /\ p \notin ret[1].swing_high_positions
         /\ StrictlyAbove(p, LeftWindow(p))
         /\ \A k \in RightWindow(p) : MsClose(k) <= MsClose(p)

-----------------------------------------------------------------------------
(* run_backtest: the scan, the balance and the trade objects.              *)

Positions == {evaluated[e].pos : e \in 1..Len(evaluated)}

LastOutcome == IF evaluated = <<>> THEN "" ELSE evaluated[Len(evaluated)].outcome

\* The later of two consecutive recorded trades enters after the earlier exits.
EntriesFollowExits ==
    \A k \in 1..(Len(view) - 1) : view[k + 1].entry_index > view[k].exit_index

\* No evaluated position lies in lo..hi.
NotEvaluatedIn(lo, hi) == \A q \in Positions : ~(lo <= q /\ q <= hi)

\* The step that records the resolved trade (lines 280-303).
Recording == pc = "closed" /\ pc' = "loop"

ResumesAfterExit == Recording => i' = cur[1].exit_idx + 1

\* C3 (as amended): trades never overlap: recording a trade that exits at
\* exit_index sets the scan index to exactly exit_index + 1, the later of two
\* consecutive recorded trades enters strictly after the earlier one's exit,
\* and the signal generator is evaluated on the entry bar of a trade (the
\* evaluation that produced it) but on no bar after it through the exit bar.
C3_NoEvaluationAfterEntryThroughExit ==
    /\ [][ResumesAfterExit]_vars
    /\ [](/\ EntriesFollowExits
          /\ \A k \in 1..Len(view) :
                /\ view[k].entry_index \in Positions
                /\ NotEvaluatedIn(view[k].entry_index + 1, view[k].exit_index))

\* C3 (as stated): the same, with the signal generator evaluated on no bar
\* from the entry bar through the exit bar of a trade.
C3_NoEvaluationFromEntryThroughExit ==
    /\ [][ResumesAfterExit]_vars
    /\ [](/\ EntriesFollowExits
          /\ \A k \in 1..Len(view) :
                NotEvaluatedIn(view[k].entry_index, view[k].exit_index))

\* Two trades are recorded, the first exits before the last bar but one, and
\* the scan has gone on after the second.
C3_Witness ==
    /\ Len(view) >= 2
    /\ view[1].exit_index + 1 = view[2].entry_index
    /\ pc = "loop"
    /\ i = view[2].exit_index + 1

PnlFormula(t) ==
    IF t.direction = "long"
    THEN RMul(RSub(t.exit_price, t.entry_price_avg), t.size_total)
    ELSE RMul(RSub(t.entry_price_avg, t.exit_price), t.size_total)

Running == pc \in {"loop", "created", "filled", "closed", "done"}

\* C6: throughout the run the balance is account_size plus the sum of the
\* pnl of the trades recorded so far, each pnl being (exit-entry)*size for a
\* long and (entry-exit)*size for a short trade, and the final balance is the
\* ending_balance that compute_metrics reports for the trade list.
C6_BalanceIsAccountPlusPnl ==
    /\ Running =>
          balance = RAdd(config.account_size,
                         RSum([k \in 1..Len(trades) |-> trades[k].pnl_usd]))
    /\ \A k \in 1..Len(trades) : trades[k].pnl_usd = PnlFormula(trades[k])
    /\ pc = "done" => metrics[1].ending_balance = balance

\* The run is over with a winning and a losing trade recorded.
C6_Witness ==
    /\ pc = "done"
    /\ \E k \in 1..Len(trades) : RGt(trades[k].pnl_usd, RZero)
    /\ \E k \in 1..Len(trades) : RLt(trades[k].pnl_usd, RZero)
    /\ balance # config.account_size

CurStatus == IF cur = <<>> THEN "none" ELSE cur[1].trade.status

\* The status of the trade under construction before and after a step.
StatusEdge == <<CurStatus, CurStatus'>>
StatusEdgeIn(edges) == StatusEdge \in edges

RecordedClosed == \A k \in 1..Len(trades) : trades[k].status = "closed"

\* C7 (as amended): the status of a trade of the backtest loop is pending at
\* creation and still pending after the simulated fill has set its prices,
\* size and pnl; it is set to closed directly once the exit is resolved, the
\* status open is never assigned, and every recorded trade is closed.
C7_PendingThenClosed ==
    /\ [][StatusEdgeIn({<<"none", "pending">>, <<"pending", "pending">>,
                       <<"pending", "closed">>, <<"closed", "none">>,
                       <<"none", "none">>})]_vars
    /\ [](/\ pc = "created" => CurStatus = "pending"
          /\ pc = "filled" => CurStatus = "pending"
          /\ pc = "closed" => CurStatus = "closed"
          /\ RecordedClosed)

\* C7 (as stated): pending at creation, open at the simulated fill, closed
\* when the exit is resolved, closed only from open.
C7_PendingOpenClosed ==
    /\ [][StatusEdgeIn({<<"none", "pending">>, <<"pending", "open">>,
                       <<"open", "closed">>, <<"closed", "none">>,
                       <<"none", "none">>})]_vars
    /\ [](/\ pc = "created" => CurStatus = "pending"
          /\ pc = "filled" => CurStatus = "open"
          /\ pc = "closed" => CurStatus = "closed"
          /\ RecordedClosed)

\* A trade has been filled and closed and is about to be recorded.
C7_Witness ==
    /\ pc = "closed"
    /\ CurStatus = "closed"
    /\ cur[1].trade.size_total = cur[1].size

\* C8: when generate_signal returns a signal whose signal_type is not
\* market_entry, the loop advances the scan index by exactly one bar and
\* leaves the trade list and the running balance unchanged.
C8_UnhandledSignalSkipsOneBar ==
    [][(InLoop /\ Unhandled(SignalAt(i)))
         => (i' = i + 1 /\ trades' = trades /\ balance' = balance /\ pc' = pc)]_vars

\* A limit_bundle signal was returned on the last evaluated bar.
C8_Witness ==
    /\ LastOutcome = "unhandled"
    /\ SignalAt(i - 1).signal_type = "limit_bundle"
    /\ evaluated[Len(evaluated)].pos = i - 1

\* The bars after a sizing error that lie before the last bar and in no
\* later trade have been evaluated when the run is over.
EvaluatedAfterSizingError ==
    pc = "done" =>
        \A e \in 1..Len(evaluated) :
            (evaluated[e].outcome = "sizing_error" /\ evaluated[e].pos + 1 < Len(DF) - 1)
                => evaluated[e].pos + 1 \in Positions

\* C9: when sizing a market_entry signal raises the sizing error, the run
\* does not abort: the scan index advances by exactly one bar, no trade is
\* recorded, the balance is unchanged and later bars are still evaluated.
C9_SizingErrorSkipsOneBar ==
    /\ [][(InLoop /\ SizingFails(SignalAt(i)))
            => (i' = i + 1 /\ trades' = trades /\ view' = view /\ balance' = balance
                /\ cur' = cur /\ pc' = "loop")]_vars
    /\ []EvaluatedAfterSizingError

\* A loss has brought the balance to zero, the next signal raised the sizing
\* error, and the bar after it was evaluated.
C9_Witness ==
    /\ \E e \in 1..(Len(evaluated) - 1) :
          /\ evaluated[e].outcome = "sizing_error"
          /\ evaluated[e + 1].pos = evaluated[e].pos + 1
    /\ trades # <<>>
    /\ config.risk_pct # RZero
    /\ RLe(RMul(balance, config.risk_pct), RZero)

-----------------------------------------------------------------------------
(* generate_signal on candle series around the minimum histories.          *)

\* The longest series tail after the fixed history.
MaxSigTail == 6

\* Bars of small prices: the level of the history, a break of the swing at
\* 3, lows of 1, 0 and -3 and highs of 7 and 11 for narrow and wide swings.
Low2 == Bar(2, 2, 2)
Break4 == Bar(4, 4, 4)
Dip1 == Bar(1, 2, 2)
Dip0 == Bar(0, 2, 2)
DipNeg == Bar(-3, 2, 2)
Spike7 == Bar(3, 4, 7)
Spike11 == Bar(3, 4, 11)

PadConfig(strategy, num_limit_orders) ==
    [strategy |-> strategy, account_size |-> R(1000), risk_pct |-> Pct(2),
     num_limit_orders |-> num_limit_orders]

\* The calls: a config, a history and the shapes of the tail.
SignalCalls ==
    {[config |-> Config("sma", Pct(2)), prefix |-> "flat", shapes |-> {Flat, Rise, Rally, Drop}],
     [config |-> Config("sma", Pct(2)), prefix |-> "empty", shapes |-> {Flat, Rise}],
     [config |-> Config("SMA", Pct(2)), prefix |-> "flat", shapes |-> {Flat, Rise}],
     [config |-> Config("1pad", Pct(2)), prefix |-> "swing",
      shapes |-> {Low2, Break4, Dip1, Spike11}],
     [config |-> Config("1pad", Pct(2)), prefix |-> "swing", shapes |-> {Low2, Break4, Dip0, DipNeg}],
     [config |-> Config("1pad", Pct(2)), prefix |-> "empty", shapes |-> {Low2, Break4}],
     [config |-> Config("", Pct(2)), prefix |-> "swing", shapes |-> {Low2, Break4}],
     [config |-> PadConfig("1pad", 1), prefix |-> "swing", shapes |-> {Low2, Break4, Spike7}],
     [config |-> PadConfig("1pad", 2), prefix |-> "swing", shapes |-> {Low2, Break4}],
     [config |-> PadConfig("1pad", 0), prefix |-> "swing", shapes |-> {Low2, Break4}],
     [config |-> PadConfig("1pad", -1), prefix |-> "swing", shapes |-> {Low2, Break4}],
     [config |-> Config("macd", Pct(2)), prefix |-> "swing", shapes |-> {Low2, Break4}],
     [config |-> Config("MACD", Pct(2)), prefix |-> "flat", shapes |-> {Flat, Rise}],
     [config |-> Config("sma ", Pct(2)), prefix |-> "flat", shapes |-> {Flat, Rise}],
     [config |-> Config("Sma", Pct(2)), prefix |-> "flat", shapes |-> {Flat, Rise}],
     [config |-> Config("1Pad", Pct(2)), prefix |-> "swing", shapes |-> {Low2, Break4}],
     [config |-> Config("macd", Pct(2)), prefix |-> "empty", shapes |-> {Low2}]}

InitSignal ==
    /\ BacktestIdle
    /\ ret = <<>>
    /\ \E call \in SignalCalls : \E tl \in SeqsOfLen(call.shapes, 0, MaxSigTail) :
         args = [fn |-> "generate_signal", df |-> Series(call.prefix, tl),
                 config |-> call.config]

CallGenerateSignal ==
    /\ args.fn = "generate_signal"
    /\ ret = <<>>
    /\ ret' = <<generate_signal(args.df, args.config)>>
    /\ UNCHANGED <<btVars, args>>

NextSignal == CallGenerateSignal

SpecSignal == InitSignal /\ [][NextSignal]_vars

SignalDone == args.fn = "generate_signal" /\ ret # <<>>
Returned == ret[1]
SigLen == Len(args.df)
SigClose(k) == At(args.df, k).close
SigHigh(k) == At(args.df, k).high
SigLow(k) == At(args.df, k).low
SigTs(k) == At(args.df, k).ts
Strategy == StrategyName(args.config)

\* The sum of the w closes ending at position k.
RECURSIVE WindowSum(_, _)
WindowSum(k, w) == IF w = 0 THEN 0 ELSE SigClose(k) + WindowSum(k - 1, w - 1)

\* The 10-bar average of the closes ending at k is strictly above the
\* 50-bar average (sum10/10 > sum50/50).
FastAboveSlow(k) == 5 * WindowSum(k, 10) > WindowSum(k, 50)

\* C13: with strategy sma and at least 51 bars, a signal is returned iff on
\* the last bar the 10-bar average of closes is strictly above the 50-bar
\* average while on the bar before it was at or below it; the signal is a
\* long market_entry with the single entry close[i], stop_loss 0.97*entry and
\* take_profit 1.03*entry; on every other bar no signal is returned.
C13_SmaSignalIffCrossesUp ==
    (SignalDone /\ Strategy = "sma" /\ SigLen >= 51) =>
        IF FastAboveSlow(SigLen - 1) /\ ~FastAboveSlow(SigLen - 2)
        THEN /\ Returned.signal_type = "market_entry"
             /\ Returned.strategy = "sma"
             /\ Returned.direction = "long"
             /\ Returned.entries = <<R(SigClose(SigLen - 1))>>
             /\ Returned.stop_loss = RNorm(97 * SigClose(SigLen - 1), 100)
             /\ Returned.take_profit = RNorm(103 * SigClose(SigLen - 1), 100)
        ELSE Returned = NoSignal

\* A signal on a crossing bar after bars without one.
C13_Witness ==
    /\ SignalDone /\ Strategy = "sma" /\ SigLen >= 53
    /\ Returned.signal_type = "market_entry"
    /\ ~FastAboveSlow(SigLen - 2) /\ FastAboveSlow(SigLen - 3)

\* No signal on a bar where the fast average stays above the slow one.
C13_WitnessNoSignal ==
    /\ SignalDone /\ Strategy = "sma" /\ SigLen >= 51
    /\ Returned = NoSignal
    /\ FastAboveSlow(SigLen - 1) /\ FastAboveSlow(SigLen - 2)

\* The minimum history of the selected strategy (lines 81 and 256-257).
MinHistory == IF Strategy = "sma" THEN 51 ELSE 55

\* C14: for every series shorter than the minimum history of the selected
\* strategy (51 bars for sma, 55 for 1pad), the empty series included,
\* generate_signal returns None.
C14_ShortHistoryGivesNone ==
    (SignalDone /\ Strategy \in {"sma", "1pad"} /\ SigLen < MinHistory) => Returned = NoSignal

\* None for a 1pad series of 54 bars whose structure, break and pivots
\* are those of a series that gives a signal with one bar more.
C14_Witness ==
    /\ SignalDone /\ Strategy = "1pad" /\ SigLen = 54
    /\ Returned = NoSignal
    /\ generate_signal(args.df \o <<Stamped(Low2, 54)>>, args.config).signal_type
         = "limit_bundle"

-----------------------------------------------------------------------------
(* The prerequisites of a 1pad signal, stated bar by bar.                  *)

OnepadDone == SignalDone /\ Strategy = "1pad" /\ SigLen >= 55
Emitted == Returned.signal_type = "limit_bundle"

CurrentTs == SigTs(SigLen - 1)

\* The 1-left/1-right pivots: a high not below, a low not above, its two
\* neighbours.
IsPivotHigh(q) ==
    /\ 1 <= q /\ q <= SigLen - 2
    /\ SigHigh(q) >= SigHigh(q - 1) /\ SigHigh(q) >= SigHigh(q + 1)
IsPivotLow(q) ==
    /\ 1 <= q /\ q <= SigLen - 2
    /\ SigLow(q) <= SigLow(q - 1) /\ SigLow(q) <= SigLow(q + 1)

HighsAfter(bos) ==
    {q \in 0..(SigLen - 1) : IsPivotHigh(q) /\ SigTs(q) > bos /\ SigTs(q) < CurrentTs}
LowsBefore(bos) == {q \in 0..(SigLen - 1) : IsPivotLow(q) /\ SigTs(q) < bos}

\* The swing of the pivots nearest to a break at bos: the last pivot high
\* after it and before the current bar, the last pivot low before it.
SwingOf(bos, highs, lows) ==
    IF bos = NoPos \/ bos >= CurrentTs \/ highs = {} \/ lows = {}
    THEN [found |-> FALSE]
    ELSE [found |-> TRUE, bos |-> bos,
          ph |-> SetMax(highs), pl |-> SetMax(lows),
          high |-> SigHigh(SetMax(highs)), low |-> SigLow(SetMax(lows))]

SwingAt(bos) == SwingOf(bos, HighsAfter(bos), LowsBefore(bos))

\* The swing of the active structure (the subject of C10, C11 and C12).
ActiveSwing == SwingAt(_compute_ms_and_bos(args.df, 4, 4).bos_index)

\* The net zone of a swing: centre at the 0.618 level, half width
\* |fib_0.236 - fib_1| / |fib_1| * 0.375 / 2 of the centre, cut to the swing.
ZoneCentre(sw) == RSub(R(sw.high), RMul(R(sw.high - sw.low), Milli(618)))
ZoneHalf(sw) ==
    RMul(RDiv(RAbs(RMul(R(sw.high - sw.low), Milli(764))), RAbs(R(sw.low))), RNorm(3, 16))
RawTop(sw) == RMul(ZoneCentre(sw), RAdd(R(1), ZoneHalf(sw)))
RawBottom(sw) == RMul(ZoneCentre(sw), RSub(R(1), ZoneHalf(sw)))
ZoneTop(sw) == RMin(RawTop(sw), R(sw.high))
ZoneBottom(sw) == RMax(RawBottom(sw), R(sw.low))

Degenerate(sw) == sw.found /\ sw.high <= sw.low
EmptyZone(sw) ==
    sw.found /\ sw.low < sw.high /\ sw.low # 0 /\ RGe(ZoneBottom(sw), ZoneTop(sw))

ZoneInsideSwing(sw) ==
    /\ Emitted =>
          /\ sw.found
          /\ sw.low < sw.high
          /\ RLe(R(sw.low), Returned.meta.bottom)
          /\ RLt(Returned.meta.bottom, Returned.meta.top)
          /\ RLe(Returned.meta.top, R(sw.high))
    /\ Degenerate(sw) => ~Emitted
    /\ EmptyZone(sw) => ~Emitted

\* C15: every 1pad signal is built from a swing with swing_low < swing_high
\* and a zone with swing_low <= zone_bottom < zone_top <= swing_high; a
\* degenerate swing (swing_high <= swing_low) or a zone with zone_bottom >=
\* zone_top after clamping yields no signal.
C15_ZoneInsideSwing == OnepadDone => ZoneInsideSwing(ActiveSwing)

BothEndsCut(sw) ==
    /\ Returned.meta.top = R(sw.high)
    /\ Returned.meta.bottom = R(sw.low)
    /\ RGt(RawTop(sw), R(sw.high))
    /\ RLt(RawBottom(sw), R(sw.low))

\* A signal of a wide swing: both ends of the zone are cut to the swing.
C15_Witness == OnepadDone /\ Emitted /\ BothEndsCut(ActiveSwing)

\* No signal for a degenerate swing.
C15_WitnessDegenerate == OnepadDone /\ ~Emitted /\ Degenerate(ActiveSwing)

\* No signal for a zone that is empty after clamping.
C15_WitnessEmptyZone == OnepadDone /\ ~Emitted /\ EmptyZone(ActiveSwing)

NumOrders == args.config.num_limit_orders
Entries == Returned.entries

\* Consecutive entries decrease by the same positive step.
EquallySpaced ==
    \A k \in 1..(Len(Entries) - 1) :
        /\ RGt(Entries[k], Entries[k + 1])
        /\ RSub(Entries[k], Entries[k + 1]) = RSub(Entries[1], Entries[2])

TopDownToBottom ==
    /\ Entries[1] = Returned.meta.top
    /\ Entries[Len(Entries)] = Returned.meta.bottom
    /\ EquallySpaced

\* C16 (as amended): a 1pad limit_bundle has exactly N = num_limit_orders
\* entries, N >= 1.  For N >= 2 they are equally spaced from zone_top down to
\* zone_bottom inclusive.  For N = 1 the single entry is the centre of the
\* zone (the 0.618 level), neither zone_top nor zone_bottom.  N <= 0 yields
\* no signal.
C16_EntriesSpanZoneOrCentre ==
    OnepadDone =>
        /\ Emitted =>
              /\ NumOrders >= 1
              /\ Len(Entries) = NumOrders
              /\ NumOrders >= 2 => TopDownToBottom
              /\ NumOrders = 1 =>
                    /\ Entries = <<Returned.meta.center>>
                    /\ Returned.meta.center = Returned.meta.fib_levels[Milli(618)]
                    /\ RLt(Returned.meta.bottom, Entries[1])
                    /\ RLt(Entries[1], Returned.meta.top)
        /\ NumOrders <= 0 => ~Emitted

\* C16 (as stated): exactly N entries, N >= 1, the first equal to zone_top,
\* the last equal to zone_bottom, equally spaced; N <= 0 yields no signal.
C16_EntriesSpanZone ==
    OnepadDone =>
        /\ Emitted =>
              /\ NumOrders >= 1
              /\ Len(Entries) = NumOrders
              /\ TopDownToBottom
        /\ NumOrders <= 0 => ~Emitted

\* A bundle of four entries whose last one is zone_bottom.
C16_Witness ==
    /\ OnepadDone /\ Emitted
    /\ NumOrders = 4 /\ Len(Entries) = 4
    /\ Entries[4] = Returned.meta.bottom

\* A bundle of one entry, strictly inside the zone.
C16_WitnessSingle ==
    /\ OnepadDone /\ Emitted
    /\ NumOrders = 1
    /\ Entries[1] # Returned.meta.top

LongBundleOfSwing(sw) ==
    /\ Returned # NoSignal => Emitted
    /\ Emitted =>
          /\ sw.found
          /\ Returned.strategy = "1pad"
          /\ Returned.direction = "long"
          /\ Returned.stop_loss = R(sw.low)
          /\ Returned.stop_loss = Returned.meta.fib_levels[R(1)]
          /\ Returned.take_profit = RNorm(1000 * sw.high - 236 * (sw.high - sw.low), 1000)
          /\ Returned.take_profit = Returned.meta.fib_levels[Milli(236)]

\* C17: every 1pad signal is a long limit_bundle whose stop_loss is the
\* swing-low-side Fibonacci level (ratio 1.0, the low of the selected pivot
\* low) and whose take_profit is the 0.236 level,
\* swing_high - 0.236*(swing_high - swing_low).
C17_StopAtSwingLowTargetAtFib0236 == OnepadDone => LongBundleOfSwing(ActiveSwing)

\* A signal whose take_profit is not a whole price.
C17_Witness ==
    /\ OnepadDone /\ Emitted
    /\ Returned.take_profit[2] # 1
    /\ RLt(Returned.stop_loss, Returned.take_profit)

\* The conditions under which the swing of the nearest pivots gives a
\* signal: a proper swing, a nonzero low, a nonempty zone, at least one order.
Emits(sw) ==
    /\ sw.found
    /\ sw.low < sw.high
    /\ sw.low # 0
    /\ RLt(ZoneBottom(sw), ZoneTop(sw))
    /\ NumOrders >= 1

NearestPivots(sw) ==
    /\ Emitted <=> Emits(sw)
    /\ Emitted =>
          /\ Returned.meta.bos_index = sw.bos
          /\ sw.bos < CurrentTs
          /\ Returned.meta.pivot_high_index = SigTs(sw.ph)
          /\ sw.bos < SigTs(sw.ph) /\ SigTs(sw.ph) < CurrentTs
          /\ \A q \in 0..(SigLen - 1) :
                (IsPivotHigh(q) /\ sw.bos < SigTs(q) /\ SigTs(q) < CurrentTs) => q <= sw.ph
          /\ Returned.meta.pivot_low_index = SigTs(sw.pl)
          /\ SigTs(sw.pl) < sw.bos
          /\ \A q \in 0..(SigLen - 1) : (IsPivotLow(q) /\ SigTs(q) < sw.bos) => q <= sw.pl
          /\ Returned.meta.fib_levels[R(0)] = R(SigHigh(sw.ph))
          /\ Returned.meta.fib_levels[R(1)] = R(SigLow(sw.pl))

ZoneUntouched(sw) ==
    \A q \in (sw.ph + 1)..(SigLen - 1) :
        RLt(R(SigHigh(q)), Returned.meta.bottom) \/ RGt(R(SigLow(q)), Returned.meta.top)

SeveralCandidates(sw) ==
    /\ \E q \in HighsAfter(sw.bos) : q < sw.ph /\ SigHigh(q) # SigHigh(sw.ph)
    /\ \E q \in LowsBefore(sw.bos) : q < sw.pl /\ SigLow(q) # SigLow(sw.pl)

-----------------------------------------------------------------------------
(* detect_pivots on its own                                                *)

MaxPivLen == 5
MaxPivWindow == 2

\* Bars with lows in {1, 2} and highs in {2, 3}.
PivShapes == {Bar(1, 2, 2), Bar(1, 2, 3), Bar(2, 2, 2), Bar(2, 3, 3)}

StampedSeries(bars) == [k \in 1..Len(bars) |-> Stamped(bars[k], k - 1)]

InitPivots ==
    /\ BacktestIdle
    /\ ret = <<>>
    /\ \E bars \in SeqsOfLen(PivShapes, 0, MaxPivLen),
          l \in 0..MaxPivWindow, r \in 0..MaxPivWindow :
         args = [fn |-> "detect_pivots", df |-> StampedSeries(bars),
                 left |-> l, right |-> r]

CallDetectPivots ==
    /\ args.fn = "detect_pivots"
    /\ ret = <<>>
    /\ ret' = <<detect_pivots(args.df, args.left, args.right)>>
    /\ UNCHANGED <<btVars, args>>

NextPivots == CallDetectPivots

SpecPivots == InitPivots /\ [][NextPivots]_vars

PivDone == args.fn = "detect_pivots" /\ ret # <<>>
PivLen == Len(args.df)
PivWindow(k) == {q \in 0..(PivLen - 1) : k - args.left <= q /\ q <= k + args.right}
InsideEdges(k) == args.left <= k /\ k < PivLen - args.right
HighestOfWindow(k) == \A q \in PivWindow(k) : At(args.df, q).high <= At(args.df, k).high
LowestOfWindow(k) == \A q \in PivWindow(k) : At(args.df, q).low >= At(args.df, k).low

C19_WitnessEmpty == PivDone /\ PivLen = 0 /\ ret[1].pivot_highs = {}

-----------------------------------------------------------------------------
(* detect_break_of_structure on its own                                    *)

MaxBosLen == 5
MaxLookback == 3

BosShapes == {Bar(1, 2, 3), Bar(2, 3, 4), Bar(0, 1, 2), Bar(3, 4, 4)}

\* The pivot series are those of detect_pivots on the same frame.
InitBos ==
    /\ BacktestIdle
    /\ ret = <<>>
    /\ \E bars \in SeqsOfLen(BosShapes, 0, MaxBosLen), w \in 0..MaxPivWindow,
          lb \in (-1)..MaxLookback :
         args = [fn |-> "detect_break_of_structure", df |-> StampedSeries(bars),
                 pivot_highs |->
                     PivotPrices(Highs(StampedSeries(bars)),
                                 detect_pivots(StampedSeries(bars), w, w).pivot_highs),
                 pivot_lows |->
                     PivotPrices(Lows(StampedSeries(bars)),
                                 detect_pivots(StampedSeries(bars), w, w).pivot_lows),
                 lookback_pivots |-> lb]

CallDetectBos ==
    /\ args.fn = "detect_break_of_structure"
    /\ ret = <<>>
    /\ ret' = <<detect_break_of_structure(args.df, args.pivot_highs, args.pivot_lows,
                                          args.lookback_pivots)>>
    /\ UNCHANGED <<btVars, args>>

NextBos == CallDetectBos

SpecBos == InitBos /\ [][NextBos]_vars

BosDone == args.fn = "detect_break_of_structure" /\ ret # <<>>
BosLen == Len(args.df)

\* The most recent pivot of a series strictly before bar k.
MostRecentBefore(series, k, p) ==
    /\ p \in DOMAIN series /\ p < k
    /\ \A q \in DOMAIN series : q < k => q <= p

BullishAt(k) ==
    /\ k >= 1
    /\ \E p \in DOMAIN args.pivot_highs :
          MostRecentBefore(args.pivot_highs, k, p) /\ At(args.df, k).close > args.pivot_highs[p]

BearishAt(k) ==
    /\ k >= 1
    /\ \E p \in DOMAIN args.pivot_lows :
          MostRecentBefore(args.pivot_lows, k, p) /\ At(args.df, k).close < args.pivot_lows[p]

SameForEveryLookback ==
    \A lb \in 1..MaxLookback :
        ret[1] = detect_break_of_structure(args.df, args.pivot_highs, args.pivot_lows, lb)

\* C20: detect_break_of_structure marks a bullish BOS at bar i iff i >= 1,
\* some pivot high lies strictly before i and close[i] is strictly above the
\* price of the most recent such pivot high; a bearish BOS mirrors this with
\* pivot lows and a close strictly below.  Bar 0 is never a BOS, an empty
\* series gives empty results, and the result is the same for every
\* lookback_pivots >= 1.
C20_BosAgainstMostRecentPivot ==
    (BosDone /\ args.lookback_pivots >= 1) =>
        /\ \A k \in 0..(BosLen - 1) :
              /\ k \in ret[1].bos_up <=> BullishAt(k)
              /\ k \in ret[1].bos_down <=> BearishAt(k)
        /\ ret[1].bos_up \subseteq 1..(BosLen - 1)
        /\ ret[1].bos_down \subseteq 1..(BosLen - 1)
        /\ BosLen = 0 => (ret[1].bos_up = {} /\ ret[1].bos_down = {})
        /\ SameForEveryLookback

\* A call that looks back over several pivots where a bar closes above an
\* older pivot high without closing above the most recent one, with a
\* bullish and a bearish BOS elsewhere in the result.
C20_Witness ==
    /\ BosDone /\ args.lookback_pivots >= 2
    /\ ret[1].bos_up # {} /\ ret[1].bos_down # {}
    /\ \E k \in 1..(BosLen - 1) : \E p, q \in DOMAIN args.pivot_highs :
          /\ q < p /\ MostRecentBefore(args.pivot_highs, k, p)
          /\ At(args.df, k).close > args.pivot_highs[q]
          /\ At(args.df, k).close <= args.pivot_highs[p]
          /\ k \notin ret[1].bos_up

\* The empty series.
C20_WitnessEmpty == BosDone /\ BosLen = 0 /\ ret[1].bos_up = {} /\ ret[1].bos_down = {}

-----------------------------------------------------------------------------
(* compute_fib_levels on its own                                           *)

MaxFibPrice == 4

\* Swing extremes: whole and half prices, a swing low of zero or below
\* included; the low never above the high.
FibPrices == {RNorm(n, 2) : n \in (-2)..(2 * MaxFibPrice)}

\* Ratio lists: inside [0, 1] with both ends, mirrored pairs, extensions
\* outside [0, 1].
FibLevelLists ==
    {{R(0), R(1)}, {Milli(236), Milli(764)}, {R(0), Milli(382), Milli(500), Milli(618), R(1)},
     {Milli(1272), Milli(-272)}}

InitFib ==
    /\ BacktestIdle
    /\ ret = <<>>
    /\ \E lo \in FibPrices, hi \in FibPrices, d \in {"long", "short"} :
          /\ RLe(lo, hi)
          /\ \/ args = [fn |-> "compute_fib_levels", swing_low |-> lo, swing_high |-> hi,
                         direction |-> d, levels_given |-> FALSE, levels |-> {}]
             \/ \E lv \in FibLevelLists :
                  args = [fn |-> "compute_fib_levels", swing_low |-> lo, swing_high |-> hi,
                          direction |-> d, levels_given |-> TRUE, levels |-> lv]

CallComputeFibLevels ==
    /\ args.fn = "compute_fib_levels"
    /\ ret = <<>>
    /\ ret' = <<IF args.levels_given
                THEN compute_fib_levels(args.swing_low, args.swing_high, args.direction,
                                        args.levels)
                ELSE compute_fib_levels_default(args.swing_low, args.swing_high,
                                                args.direction)>>
    /\ UNCHANGED <<btVars, args>>

NextFib == CallComputeFibLevels

SpecFib == InitFib /\ [][NextFib]_vars

FibDone == args.fn = "compute_fib_levels" /\ ret # <<>>
FibRatios == IF args.levels_given THEN args.levels ELSE DefaultLevels
FibDelta == RSub(args.swing_high, args.swing_low)
Mirror(r) == RSub(R(1), r)
MirrorCall ==
    compute_fib_levels(args.swing_low, args.swing_high,
                       IF args.direction = "long" THEN "short" ELSE "long",
                       {Mirror(r) : r \in FibRatios})

\* C21: compute_fib_levels returns for each ratio r the price
\* swing_high - r*(swing_high - swing_low) for direction long (ratio 0 the
\* swing high, ratio 1 the swing low) and swing_low + r*(swing_high -
\* swing_low) for short; the long level at r equals the short level at
\* 1 - r, and every level with 0 <= r <= 1 lies within
\* [swing_low, swing_high].
C21_LevelsLinearAndMirrored ==
    FibDone =>
        /\ DOMAIN ret[1] = FibRatios
        /\ \A r \in FibRatios :
              /\ args.direction = "long" =>
                    ret[1][r] = RSub(args.swing_high, RMul(r, FibDelta))
              /\ args.direction = "short" =>
                    ret[1][r] = RAdd(args.swing_low, RMul(r, FibDelta))
              /\ (r = R(0) /\ args.direction = "long") => ret[1][r] = args.swing_high
              /\ (r = R(1) /\ args.direction = "long") => ret[1][r] = args.swing_low
              /\ ret[1][r] = MirrorCall[Mirror(r)]
              /\ (RLe(R(0), r) /\ RLe(r, R(1))) =>
                    (RLe(args.swing_low, ret[1][r]) /\ RLe(ret[1][r], args.swing_high))

\* A long call on a proper swing with both end ratios and an inner one.
C21_Witness ==
    /\ FibDone /\ args.direction = "long"
    /\ RLt(args.swing_low, args.swing_high)
    /\ {R(0), R(1), Milli(382)} \subseteq DOMAIN ret[1]
    /\ RLt(args.swing_low, ret[1][Milli(382)])
    /\ RLt(ret[1][Milli(382)], args.swing_high)

\* An extension ratio whose level lies outside the swing.
C21_WitnessExtension ==
    /\ FibDone
    /\ \E r \in DOMAIN ret[1] : RGt(r, R(1)) /\ ~RLe(args.swing_low, ret[1][r])

-----------------------------------------------------------------------------
(* compute_metrics on its own                                              *)

MaxTrades == 3

\* Trades as the reducer reads them: status, pnl_usd, opened_at, closed_at.
MetricTrade(status, pnl, opened, closed) ==
    [status |-> status, pnl_usd |-> R(pnl), opened_at |-> opened, closed_at |-> closed]

MetricTrades ==
    {MetricTrade("closed", pnl, times[1], times[2]) :
         pnl \in {50, -20, 0}, times \in {<<Ts(0), Ts(1)>>, <<Ts(1), Ts(4)>>, <<NoTime, NoTime>>}}
    \cup {MetricTrade(status, 50, Ts(0), Ts(2)) : status \in {"pending", "open", "cancelled"}}

MetricBalances == {R(1000), R(0), R(-100)}

InitMetrics ==
    /\ BacktestIdle
    /\ ret = <<>>
    /\ \E trs \in SeqsOfLen(MetricTrades, 0, MaxTrades), b \in MetricBalances :
         args = [fn |-> "compute_metrics", trades |-> trs, starting_balance |-> b]

CallComputeMetrics ==
    /\ args.fn = "compute_metrics"
    /\ ret = <<>>
    /\ ret' = <<compute_metrics(args.trades, args.starting_balance)>>
    /\ UNCHANGED <<btVars, args>>

NextMetrics == CallComputeMetrics

SpecMetrics == InitMetrics /\ [][NextMetrics]_vars

MetDone == args.fn = "compute_metrics" /\ ret # <<>>
ClosedAt == {k \in 1..Len(args.trades) : args.trades[k].status = "closed"}
WinsAt == {k \in ClosedAt : args.trades[k].pnl_usd[1] > 0}

RECURSIVE ClosedPnl(_)
ClosedPnl(k) ==
    IF k = 0 THEN 0
    ELSE ClosedPnl(k - 1)
         + (IF args.trades[k].status = "closed" THEN args.trades[k].pnl_usd[1] ELSE 0)

\* C22: compute_metrics reduces only the closed trades: ending_balance =
\* starting_balance + the sum of their pnl, net_profit = ending_balance -
\* starting_balance, net_return_pct = net_profit/starting_balance*100,
\* num_trades = the number of closed trades, win_rate_pct = 100 * (closed
\* trades with pnl > 0) / num_trades; a pnl of exactly 0 is not a win.
C22_MetricsOverClosedTrades ==
    MetDone =>
        /\ ret[1].ending_balance = RAdd(args.starting_balance, R(ClosedPnl(Len(args.trades))))
        /\ ret[1].net_profit = R(ClosedPnl(Len(args.trades)))
        /\ ret[1].num_trades = Cardinality(ClosedAt)
        /\ RGt(args.starting_balance, RZero) =>
              ret[1].net_return_pct =
                  RNorm(100 * ClosedPnl(Len(args.trades)), args.starting_balance[1])
        /\ ClosedAt # {} =>
              ret[1].win_rate_pct = RNorm(100 * Cardinality(WinsAt), Cardinality(ClosedAt))

\* The scenario of pnl +50 and -20 on 1000, beside a trade that is not
\* closed: 1030, 3.0 and 50.0.
C22_Witness ==
    /\ MetDone
    /\ args.starting_balance = R(1000)
    /\ \E k \in 1..Len(args.trades) : args.trades[k].status # "closed"
    /\ {args.trades[k].pnl_usd : k \in ClosedAt} = {R(50), R(-20)}
    /\ Cardinality(ClosedAt) = 2
    /\ ret[1].ending_balance = R(1030)
    /\ ret[1].net_return_pct = R(3)
    /\ ret[1].win_rate_pct = R(50)

\* A closed trade with pnl 0 beside a winning one: one win of two.
C22_WitnessZeroPnl ==
    /\ MetDone
    /\ {args.trades[k].pnl_usd : k \in ClosedAt} = {R(50), R(0)}
    /\ Cardinality(ClosedAt) = 2
    /\ ret[1].win_rate_pct = R(50)

Defined(x) == x[2] > 0

\* C23: compute_metrics never divides by zero: with starting_balance <= 0
\* net_return_pct is 0, and with no closed trades num_trades = 0,
\* win_rate_pct = 0, ending_balance = starting_balance and the average,
\* minimum and maximum trade duration are all 0.
C23_NoDivisionByZero ==
    MetDone =>
        /\ Defined(ret[1].net_return_pct) /\ Defined(ret[1].win_rate_pct)
        /\ Defined(ret[1].avg_trade_duration_sec)
        /\ RLe(args.starting_balance, RZero) => ret[1].net_return_pct = RZero
        /\ ClosedAt = {} =>
              /\ ret[1].num_trades = 0
              /\ ret[1].win_rate_pct = RZero
              /\ ret[1].ending_balance = args.starting_balance
              /\ ret[1].avg_trade_duration_sec = RZero
              /\ ret[1].min_trade_duration_sec = 0
              /\ ret[1].max_trade_duration_sec = 0

\* A negative starting balance with a net profit, and trades none of which
\* is closed.
C23_Witness ==
    /\ MetDone
    /\ RLt(args.starting_balance, RZero)
    /\ Len(args.trades) >= 2 /\ ClosedAt = {}
    /\ ret[1].net_return_pct = RZero

\* A zero starting balance with closed trades that made a profit.
C23_WitnessZeroBalance ==
    /\ MetDone
    /\ args.starting_balance = RZero
    /\ RGt(ret[1].net_profit, RZero)
    /\ ret[1].net_return_pct = RZero

-----------------------------------------------------------------------------
(* generate_signal: the dispatch                                           *)

\* The spellings of the two strategy names among the configs drawn; "" is a
\* config without the key.
KnownSpellings == {"sma", "SMA", "Sma", "1pad", "1PAD", "1Pad", ""}

\* C24: generate_signal returns no signal (None), without raising, for every
\* strategy name other than sma and 1pad (compared case-insensitively),
\* whatever the candle series.
C24_UnknownStrategyGivesNone ==
    (SignalDone /\ args.config.strategy \notin KnownSpellings) => Returned = NoSignal

WithStrategy(name) == [args.config EXCEPT !.strategy = name]

\* An unknown name on a series where the sma or the 1pad strategy signals.
C24_Witness ==
    /\ SignalDone
    /\ args.config.strategy \in {"macd", "MACD", "sma "}
    /\ Returned = NoSignal
    /\ \/ generate_signal(args.df, WithStrategy("1pad")) # NoSignal
       \/ generate_signal(args.df, WithStrategy("sma")) # NoSignal

\* A mixed-case spelling of a known name signals.
C24_WitnessMixedCase ==
    /\ SignalDone
    /\ args.config.strategy \in {"Sma", "1Pad"}
    /\ Returned # NoSignal

-----------------------------------------------------------------------------
(* _simulate_trade: the first touch                                        *)

TriggerPrice(k) ==
    IF SlCond(At(args.df, k), args.direction, args.stop_loss)
    THEN args.stop_loss ELSE args.take_profit

\* C25: _simulate_trade exits on the earliest bar after the entry bar that
\* touches a level: a return from a trigger has exit_index > start_idx, no
\* bar strictly between start_idx and exit_index satisfies the stop-loss or
\* the take-profit condition, and the entry bar itself is never checked.
C25_ExitsOnFirstTouchAfterEntry ==
    SimDone =>
        /\ (\E k \in AfterEntry : Touches(k)) =>
              /\ ret[1].exit_index > args.start_idx
              /\ FirstTouch(ret[1].exit_index)
              /\ ret[1].exit_price = TriggerPrice(ret[1].exit_index)
        /\ \A k \in AfterEntry :
              FirstTouch(k) => ret[1] = [exit_index |-> k, exit_price |-> TriggerPrice(k)]
        /\ AfterEntry # {} => ret[1].exit_index > args.start_idx

\* An entry bar that itself touches a level, then a bar that touches none,
\* then the exit.
C25_Witness ==
    /\ SimDone
    /\ Touches(args.start_idx)
    /\ ret[1].exit_index > args.start_idx + 1
    /\ FirstTouch(ret[1].exit_index)
    /\ ret[1].exit_index < Len(args.df) - 1
    /\ Touches(ret[1].exit_index + 1)

-----------------------------------------------------------------------------
(* run_backtest: the indices of the recorded trades                        *)

\* The positions of the bars with a given timestamp.
PositionsOf(ts) == {q \in 0..(Len(DF) - 1) : At(DF, q).ts = ts}

IndicesOf(k) ==
    /\ 50 <= view[k].entry_index
    /\ view[k].entry_index <= Len(DF) - 2
    /\ view[k].entry_index < view[k].exit_index
    /\ view[k].exit_index <= Len(DF) - 1
    /\ view[k].id = trades[k].id
    /\ PositionsOf(trades[k].opened_at) = {view[k].entry_index}
    /\ PositionsOf(trades[k].closed_at) = {view[k].exit_index}

\* C26: for every trade recorded by run_backtest on a series of len bars,
\* 50 <= entry_index <= len - 2 and entry_index < exit_index <= len - 1, and
\* the entry_index / exit_index given to the visualization layer are exactly
\* the positions of the bars whose timestamps are the trade's opened_at and
\* closed_at.
C26_TradeIndicesInRange ==
    /\ Len(view) = Len(trades)
    /\ \A k \in 1..Len(view) : IndicesOf(k)

\* A finished run with a trade entered on bar 50 and a trade entered on the
\* last bar but one, which spans a single bar.
C26_Witness ==
    /\ pc = "done"
    /\ \E k \in 1..Len(view) : view[k].entry_index = 50
    /\ \E k \in 1..Len(view) :
          view[k].entry_index = Len(DF) - 2 /\ view[k].exit_index = Len(DF) - 1

-----------------------------------------------------------------------------
(* run_backtest: termination                                               *)

\* The control positions at which a statement of run_backtest remains to be
\* executed.
StatementPending == pc \in {"start", "loop", "created", "filled", "closed"}

\* The control position or the scan index takes another value.
ControlMoves ==
    /\ StatementPending
    /\ pc' \in {"loop", "created", "filled", "closed", "done", "aborted"}
    /\ i' \in 0..Len(DF)

\* The run as one sequential execution of the interpreter: while a statement
\* remains to be executed, one is executed, which moves the control position
\* or the scan index (EveryStepMoves and SomeStepPossible below state that
\* this is what the statements of the run do).
SpecLive == Init /\ [][Next]_vars /\ WF_<<pc, i>>(ControlMoves)

\* Every executed statement moves the control position or the scan index.
EveryStepMoves == <<pc, i>>' # <<pc, i>>

\* The branches of lines 197-303 leave no position without a statement to
\* execute: the signal of a scanned bar is absent, unhandled, or a market
\* entry whose sizing raises or returns.
SomeStepPossible ==
    /\ pc = "start" => (Len(DF) = 0 \/ Len(DF) # 0)
    /\ InLoop => (\/ SignalAt(i).signal_type = "None"
                  \/ Unhandled(SignalAt(i))
                  \/ SizingFails(SignalAt(i))
                  \/ SizingWorks(SignalAt(i)))
    /\ pc \in {"created", "filled", "closed"} => Len(cur) = 1
    /\ StatementPending => (pc # "loop" \/ InLoop \/ i >= Len(DF) - 1)

\* One evaluation of the signal generator is one iteration of the loop.
Iterations == Len(evaluated)

Skipping == pc = "loop" /\ pc' = "loop" /\ evaluated' # evaluated

ScanAdvances ==
    /\ Skipping => i' = i + 1
    /\ Recording => (i' = cur[1].exit_idx + 1 /\ i' > cur[1].entry_idx /\ i' > i)
    /\ pc # "start" => i' >= i

MetricsComputed == pc = "done" /\ metrics # <<>>

\* The bound len - 50 on the iterations, zero when the series is shorter.
MostIterations == IF Len(DF) > 50 THEN Len(DF) - 50 ELSE 0

\* C27 (as amended): the scan index of run_backtest strictly increases on
\* every loop iteration (by one on a skipped bar, to exit_index + 1 >
\* entry_index after a trade), so for every non-empty finite candle series
\* the loop terminates after at most len - 50 iterations (none when len <=
\* 50) and the metrics are computed; on an empty series the run returns
\* before the loop and computes no metrics.
C27_ScanAdvancesAndNonEmptyRunEnds ==
    /\ [][ScanAdvances /\ EveryStepMoves]_vars
    /\ [](SomeStepPossible /\ Iterations <= MostIterations)
    /\ (pc = "start" /\ Len(DF) # 0) ~> MetricsComputed
    /\ [](Len(DF) = 0 => metrics = <<>>)

\* C27 (as stated): the scan index strictly increases on every loop
\* iteration, so for every finite candle series the loop terminates after at
\* most len - 50 iterations and the metrics are computed.
C27_ScanAdvancesAndEveryRunEnds ==
    /\ [][ScanAdvances /\ EveryStepMoves]_vars
    /\ [](Iterations <= MostIterations)
    /\ <>MetricsComputed

\* A finished run of a trade and a skipped bar after it.
C27_Witness ==
    /\ MetricsComputed
    /\ Len(trades) >= 1
    /\ Iterations >= 2
    /\ Iterations < MostIterations

\* A finished run that evaluated every bar from 50 to len - 2.
C27_WitnessEveryBar == MetricsComputed /\ Len(DF) > 52 /\ Iterations = Len(DF) - 51

\* The run on an empty series, ended before the loop.
C27_WitnessEmpty == pc = "aborted" /\ Len(DF) = 0 /\ metrics = <<>>

-----------------------------------------------------------------------------
(* run_backtest: the risked amount and the running balance                 *)

\* The configs of the claim: a positive account and a risk fraction in (0, 1].
RiskWithinAccount ==
    /\ RGt(config.account_size, RZero)
    /\ RGt(config.risk_pct, RZero)
    /\ RLe(config.risk_pct, R(1))

WellFormedBars == \A k \in 1..Len(DF) : DF[k].low <= DF[k].close /\ DF[k].close <= DF[k].high

\* A trade is between its creation and its recording; the balance is still
\* the one it was sized from.
TradeInHand == pc \in {"created", "filled", "closed"}

\* The amount put at risk by the trade in hand.
RiskedAmount == RMul(balance, config.risk_pct)

ExitsAtStop == cur[1].exit_price = cur[1].stop_loss

\* Lines 232-281 on the trade in hand.
SizedFromBalance ==
    /\ RGt(balance, RZero)
    /\ RMul(cur[1].size, RAbs(RSub(cur[1].entry_price, cur[1].stop_loss))) = RiskedAmount
    /\ ExitsAtStop => cur[1].pnl = RSub(RZero, RiskedAmount)
    /\ ~ExitsAtStop => RGt(cur[1].pnl, RSub(RZero, RiskedAmount))

\* C28: in run_backtest with account_size > 0, 0 < risk_pct <= 1 and
\* well-formed bars, each trade is sized from the running balance at entry:
\* a trade that exits at its stop_loss loses exactly risk_pct times that
\* balance, every other exit loses less, and the running balance is never
\* negative at any point of the run.
C28_LossBoundedByRiskedBalance ==
    RiskWithinAccount =>
        \/ /\ RGe(balance, RZero)
           /\ TradeInHand => SizedFromBalance
        \/ ~WellFormedBars

\* A second trade, sized from a balance that a first trade changed, stopped
\* out.
C28_Witness ==
    /\ RiskWithinAccount
    /\ pc = "closed"
    /\ Len(trades) >= 1
    /\ balance # config.account_size
    /\ ExitsAtStop

\* A run that risked the whole balance, was stopped out and ended at zero.
C28_WitnessWholeBalance ==
    /\ pc = "done"
    /\ config.risk_pct = R(1)
    /\ Len(trades) >= 1
    /\ balance = RZero

\* A trade closed at the final bar below its entry and above its stop.
C28_WitnessForcedExit ==
    /\ RiskWithinAccount
    /\ pc = "closed"
    /\ ~ExitsAtStop
    /\ RLt(cur[1].pnl, RZero)

-----------------------------------------------------------------------------
(* run_backtest with the 1pad strategy                                     *)

\* The config names the 1pad strategy or has no strategy key.
OnepadConfigured == config.strategy = "" \/ Lower(config.strategy) = "1pad"

LoggedOutcomes == {evaluated[k].outcome : k \in 1..Len(evaluated)}

\* Nothing was sized, created or recorded, and the balance and the metrics
\* show the account size.
NothingTraded ==
    /\ trades = <<>> /\ view = <<>> /\ cur = <<>>
    /\ LoggedOutcomes \subseteq {"none", "unhandled"}
    /\ pc \in {"loop", "done"} => balance = config.account_size
    /\ pc = "done" => /\ metrics[1].ending_balance = config.account_size
                      /\ metrics[1].num_trades = 0
                      /\ metrics[1].net_profit = RZero

\* C29: when the configured strategy is 1pad, or the config has no strategy
\* key, run_backtest records no trade on any candle series: the trade list
\* stays empty and the ending balance equals account_size, because every
\* signal produced is a limit_bundle.
C29_OnepadRunRecordsNoTrade ==
    OnepadConfigured =>
        /\ NothingTraded
        /\ InLoop => SignalAt(i).signal_type \in {"None", "limit_bundle"}

\* A finished run of a config without the strategy key in which a
\* limit_bundle was produced and skipped.
C29_Witness ==
    /\ config.strategy = ""
    /\ pc = "done"
    /\ "unhandled" \in LoggedOutcomes
    /\ metrics[1].ending_balance = config.account_size

\* The same with the strategy named.
C29_WitnessNamed ==
    /\ config.strategy = "1pad"
    /\ pc = "done"
    /\ "unhandled" \in LoggedOutcomes

-----------------------------------------------------------------------------
(* The entry prices of a 1pad signal against its stop and its target       *)

\* A 1pad signal was returned whose swing low is a positive price.
EmittedOnPositivePrices == OnepadDone /\ Emitted /\ RGt(Returned.stop_loss, RZero)

EntryPrices == {Returned.entries[k] : k \in 1..Len(Returned.entries)}

\* The swing high of the returned signal is more than five times its low.
WideSwing == RGt(Returned.meta.fib_levels[RZero], RMul(R(5), Returned.stop_loss))

\* C30 (as stated): in every 1pad signal built from positive prices, each
\* entry price e of the limit bundle satisfies stop_loss <= e < take_profit,
\* for every swing with swing_low < swing_high and every num_limit_orders
\* >= 1.
C30_EntriesBetweenStopAndTarget ==
    EmittedOnPositivePrices =>
        \A e \in EntryPrices : RLe(Returned.stop_loss, e) /\ RLt(e, Returned.take_profit)

\* What lines 323-338 and 357-369 do give: every entry lies between the
\* stop_loss and the swing high, and below the take_profit when the swing
\* high is at most five times the swing low or the bundle has one order.
C30_EntriesBetweenStopAndSwingHigh ==
    EmittedOnPositivePrices =>
        /\ \A e \in EntryPrices :
              /\ RLe(Returned.stop_loss, e)
              /\ RLe(e, Returned.meta.fib_levels[RZero])
        /\ (~WideSwing \/ NumOrders = 1) =>
              \A e \in EntryPrices : RLt(e, Returned.take_profit)

\* A bundle of several orders on a swing from 2 to 11 whose first entry is
\* not below the take_profit.
C30_Witness ==
    /\ EmittedOnPositivePrices
    /\ WideSwing
    /\ NumOrders >= 2
    /\ RGe(Returned.entries[1], Returned.take_profit)

\* A bundle on a narrow swing, every entry below the take_profit.
C30_WitnessNarrow ==
    /\ EmittedOnPositivePrices
    /\ ~WideSwing
    /\ NumOrders >= 2
    /\ \A e \in EntryPrices : RLt(e, Returned.take_profit)

====
